---- MODULE Spec2Model ----
(***************************************************************************)
(* GameEngine (src/src/app/page.tsx, lines 149-783) as a state machine.    *)
(*                                                                         *)
(* Units.  Time is in milliseconds, as in the source.  Positions and sizes *)
(* are in thousandths of a pixel, so that `position += velocity * dt` with *)
(* dt = deltaTime / 1000 is exact integer arithmetic: a velocity of v px/s *)
(* over deltaTime ms moves v * deltaTime thousandths of a pixel.           *)
(* gameSpeed is kept in fifths (gameSpeed = 1 + (level - 1) * 0.2 is the   *)
(* number 5 + (level - 1) here).                                           *)
(*                                                                         *)
(* Math.random() is a choice from the small sets named below.              *)
(***************************************************************************)
EXTENDS Integers, Sequences, FiniteSets, TLC

VARIABLES
    engine,         \* the GameEngine object: all of its fields
    log,            \* the callbacks invoked by the last operation, in order
    gameOverCalls,  \* onGameOver invocations since construction or the last reset()
    nextId,         \* the identity the next object created gets
    dead,           \* the identities of the objects whose active flag was ever false
    inputs,         \* setPlayerInput() calls so far
    resets,         \* reset() calls so far
    view,           \* what the presentation shows: the last value of each callback
    held,           \* the shots fired since the shoot key went down
    last,           \* the last operation: its name, deltaTime and snapshots
    history,        \* what happened since the last reset(), and the enemies' last shots
    driver,         \* the Game component (src/unnamed/part_001): its gameState
    audio           \* the AudioManager object (src/unnamed/part_000)

vars == <<engine, log, gameOverCalls, nextId, dead, inputs, resets, view, held, last,
          history, driver, audio>>

(***************************************************************************)
(* Bounds of the model: the numbers of update(), setPlayerInput() and      *)
(* reset() calls of a run.                                                 *)
(***************************************************************************)
MaxTicks == 3
MaxInputs == 1
MaxResets == 1
MaxLevelTicks == 7

(***************************************************************************)
(* Program constants.                                                      *)
(***************************************************************************)
PLAYER_SPEED == 300
PROJECTILE_SPEED == 400
ENEMY_SPAWN_RATE == 2000
POWERUP_SPAWN_RATE == 15000

Px(n) == n * 1000

Max(a, b) == IF a >= b THEN a ELSE b
Min(a, b) == IF a <= b THEN a ELSE b

Vec(x, y) == [x |-> x, y |-> y]

(***************************************************************************)
(* The canvases the engine is constructed on: the constructor takes the    *)
(* canvas from its caller and the engine reads its width and height.  The  *)
(* two are small, so that the entities meet within a few ticks.  On the    *)
(* 60 pixels high one the player (at height - 60) is in reach of the       *)
(* enemies and the power-ups, which spawn above the top edge; its own      *)
(* projectiles start above the padded screen and are removed at once.  On  *)
(* the 170 pixels high one a projectile of the player reaches an enemy at  *)
(* the top edge; the power-ups, which only bob, never reach the player.    *)
(* On the 867 pixels high one a projectile fired in a tick of 2000 ms ends *)
(* that tick at y = -8, inside a fast enemy spawned in the same tick, so   *)
(* that seven ticks bring the score to 1050 and the level to 2.            *)
(***************************************************************************)
ContactCanvas == [width |-> Px(100), height |-> Px(60)]
ShootingCanvas == [width |-> Px(100), height |-> Px(170)]
LevelCanvas == [width |-> Px(100), height |-> Px(867)]

\* A canvas on which a projectile fired in the third of three ticks of two
\* seconds ends where the enemies spawned in the first two ticks are.
OvertakeCanvas == [width |-> Px(100), height |-> Px(1079)]

\* The canvas of the Game component (src/unnamed/part_001, lines 32-33).
DriverCanvas == [width |-> Px(800), height |-> Px(600)]

Canvases == {ContactCanvas, ShootingCanvas, LevelCanvas}

\* The update() calls of a run on a canvas.
TicksOn(canvas) == IF canvas = LevelCanvas THEN MaxLevelTicks ELSE MaxTicks

(***************************************************************************)
(* update(timestamp) is called with timestamp = lastTime + d, d drawn from *)
(* DeltaTimes (a timestamp may repeat or run backwards).                   *)
(***************************************************************************)
DeltaTimes(canvas) ==
    IF canvas = ContactCanvas THEN {-100, 0, 100, 4000}
    ELSE IF canvas = ShootingCanvas THEN {0, 250}
    ELSE {2000}

EnemyTypes == {"basic", "fast", "heavy"}
PowerUpTypes == {"rapidFire", "shield", "multiShot"}

(***************************************************************************)
(* Math.random() draws.                                                    *)
(*   spawnEnemy: x = random * (width - 40) + 20, velocity.x =              *)
(*     (random - 0.5) * 50, shootCooldown = random * 2000.                 *)
(*   spawnPowerUp: x = random * (width - 30) + 15.                         *)
(*   updateEnemies: shootCooldown = 1000 + random * 2000.                  *)
(*   createParticles: velocity = (random - 0.5) * 200 on each axis,        *)
(*     life = 500 + random * 500.                                          *)
(***************************************************************************)
EnemyXs(canvas) ==
    IF canvas \in {LevelCanvas, OvertakeCanvas, DriverCanvas}
    THEN {canvas.width \div 2 - Px(10)}
    ELSE {Px(20), canvas.width \div 2 - Px(10)}
EnemyVelocityXs == {0}
EnemySpawnCooldowns == {0}
PowerUpXs(canvas) == {Px(15)}
EnemyShotCooldowns == {1000}
ParticleDraws == {[velocity |-> Vec(-100, 60), life |-> 500]}

(***************************************************************************)
(* sin(frameCount * 0.1) * 0.5 pixels, rounded to a thousandth of a pixel. *)
(***************************************************************************)
SinTable == <<50, 99, 148, 195, 240, 282, 322, 359, 392, 421, 446, 466>>
Bob(frameCount) == IF frameCount \in 1..Len(SinTable) THEN SinTable[frameCount] ELSE 0

(***************************************************************************)
(* checkCollision (lines 472-477).                                         *)
(***************************************************************************)
checkCollision_leftEdges(obj1, obj2) ==
    /\ obj1.position.x < obj2.position.x + obj2.size.x
    /\ obj1.position.y < obj2.position.y + obj2.size.y

checkCollision(obj1, obj2) ==
    /\ obj1.position.x < obj2.position.x + obj2.size.x
    /\ obj1.position.x + obj1.size.x > obj2.position.x
    /\ obj1.position.y < obj2.position.y + obj2.size.y
    /\ obj1.position.y + obj1.size.y > obj2.position.y

(***************************************************************************)
(* A callback invocation.                                                  *)
(***************************************************************************)
Call(cb, arg) == [cb |-> cb, arg |-> arg]

\* What updatePlayer and reset() hand to onPowerUpChange: for each entry of
\* the Map, its type and timeLeft / 1000 (seconds, kept as the fraction
\* num / 1000).  The order of the array (the Map's insertion order) is not
\* modelled.
activePowerUps(powerUps) ==
    {[type |-> t, timeLeft |-> [num |-> powerUps[t], den |-> 1000]] : t \in DOMAIN powerUps}

EmptyMap == [t \in {} |-> 0]

(***************************************************************************)
(* constructor (lines 150-199): the field initialisers and the player.     *)
(***************************************************************************)
NewEngine(canvas) ==
    [canvas |-> canvas,
     lastTime |-> 0,
     frameCount |-> 0,
     score |-> 0,
     lives |-> 3,
     level |-> 1,
     gameSpeed |-> 5,
     input |-> [left |-> FALSE, right |-> FALSE, shoot |-> FALSE],
     player |-> [position |-> Vec(canvas.width \div 2, canvas.height - Px(60)),
                 velocity |-> Vec(0, 0),
                 size |-> Vec(Px(30), Px(30)),
                 active |-> TRUE,
                 health |-> 100,
                 shootCooldown |-> 0,
                 powerUps |-> EmptyMap],
     enemies |-> <<>>,
     projectiles |-> <<>>,
     powerUps |-> <<>>,
     particles |-> <<>>,
     enemySpawnTimer |-> 0,
     powerUpSpawnTimer |-> 0]

(***************************************************************************)
(* createPlayerProjectile (lines 479-510).                                 *)
(***************************************************************************)
createPlayerProjectile(s) ==
    LET projectile ==
            [id |-> s.nextId,
             position |-> Vec(s.player.position.x,
                              s.player.position.y - s.player.size.y \div 2),
             velocity |-> Vec(0, -PROJECTILE_SPEED),
             size |-> Vec(Px(4), Px(12)),
             active |-> TRUE,
             damage |-> 25,
             owner |-> "player"]
        leftProjectile ==
            [projectile EXCEPT !.id = @ + 1, !.position.x = @ - Px(15), !.velocity.x = -50]
        rightProjectile ==
            [projectile EXCEPT !.id = @ + 2, !.position.x = @ + Px(15), !.velocity.x = 50]
    IN  IF "multiShot" \in DOMAIN s.player.powerUps
        THEN [s EXCEPT !.projectiles = @ \o <<projectile, leftProjectile, rightProjectile>>,
                       !.nextId = @ + 3]
        ELSE [s EXCEPT !.projectiles = Append(@, projectile), !.nextId = @ + 1]

(***************************************************************************)
(* The power-up loop of updatePlayer (lines 263-270).                      *)
(***************************************************************************)
tickPowerUps_frozen(powerUps, deltaTime) ==
    LET kept == {t \in DOMAIN powerUps : powerUps[t] - deltaTime > 0}
    IN  [t \in kept |-> powerUps[t]]

tickPowerUps_keepsZero(powerUps, deltaTime) ==
    LET kept == {t \in DOMAIN powerUps : powerUps[t] - deltaTime >= 0}
    IN  [t \in kept |-> powerUps[t] - deltaTime]

tickPowerUps(powerUps, deltaTime) ==
    LET kept == {t \in DOMAIN powerUps : powerUps[t] - deltaTime > 0}
    IN  [t \in kept |-> powerUps[t] - deltaTime]

(***************************************************************************)
(* updatePlayer (lines 232-278).  s carries the engine's fields and the    *)
(* log of callbacks.                                                       *)
(***************************************************************************)
updatePlayer_slowFire(s, deltaTime) ==
    LET vx == IF s.input.right THEN PLAYER_SPEED
              ELSE IF s.input.left THEN -PLAYER_SPEED ELSE 0
        x1 == s.player.position.x + vx * deltaTime
        x2 == Max(s.player.size.x \div 2,
                  Min(s.canvas.width - s.player.size.x \div 2, x1))
        cd == Max(0, s.player.shootCooldown - deltaTime)
        s1 == [s EXCEPT !.player.velocity.x = vx,
                        !.player.position.x = x2,
                        !.player.shootCooldown = cd]
        s2 == IF s1.input.shoot /\ cd <= 0
              THEN [createPlayerProjectile(s1) EXCEPT !.player.shootCooldown = 500]
              ELSE s1
        pu == tickPowerUps(s2.player.powerUps, deltaTime)
    IN  [s2 EXCEPT !.player.powerUps = pu,
                   !.log = Append(@, Call("onPowerUpChange", activePowerUps(pu)))]

updatePlayer_unclamped(s, deltaTime) ==
    LET vx == IF s.input.right THEN PLAYER_SPEED
              ELSE IF s.input.left THEN -PLAYER_SPEED ELSE 0
        x1 == s.player.position.x + vx * deltaTime
        cd == Max(0, s.player.shootCooldown - deltaTime)
        s1 == [s EXCEPT !.player.velocity.x = vx,
                        !.player.position.x = x1,
                        !.player.shootCooldown = cd]
        s2 == IF s1.input.shoot /\ cd <= 0
              THEN [createPlayerProjectile(s1) EXCEPT
                        !.player.shootCooldown =
                            IF "rapidFire" \in DOMAIN s1.player.powerUps THEN 100 ELSE 250]
              ELSE s1
        pu == tickPowerUps(s2.player.powerUps, deltaTime)
    IN  [s2 EXCEPT !.player.powerUps = pu,
                   !.log = Append(@, Call("onPowerUpChange", activePowerUps(pu)))]

updatePlayer(s, deltaTime) ==
    LET vx == IF s.input.right THEN PLAYER_SPEED
              ELSE IF s.input.left THEN -PLAYER_SPEED ELSE 0
        x1 == s.player.position.x + vx * deltaTime
        x2 == Max(s.player.size.x \div 2,
                  Min(s.canvas.width - s.player.size.x \div 2, x1))
        cd == Max(0, s.player.shootCooldown - deltaTime)
        s1 == [s EXCEPT !.player.velocity.x = vx,
                        !.player.position.x = x2,
                        !.player.shootCooldown = cd]
        s2 == IF s1.input.shoot /\ cd <= 0
              THEN [createPlayerProjectile(s1) EXCEPT
                        !.player.shootCooldown =
                            IF "rapidFire" \in DOMAIN s1.player.powerUps THEN 100 ELSE 250]
              ELSE s1
        pu == tickPowerUps(s2.player.powerUps, deltaTime)
    IN  [s2 EXCEPT !.player.powerUps = pu,
                   !.log = Append(@, Call("onPowerUpChange", activePowerUps(pu)))]

(***************************************************************************)
(* createEnemyProjectile (lines 512-526).                                  *)
(***************************************************************************)
createEnemyProjectile(enemy, id) ==
    [id |-> id,
     position |-> Vec(enemy.position.x, enemy.position.y + enemy.size.y \div 2),
     velocity |-> Vec(0, (PROJECTILE_SPEED * 6) \div 10),
     size |-> Vec(Px(3), Px(8)),
     active |-> TRUE,
     damage |-> 20,
     owner |-> "enemy",
     shooter |-> enemy.id]

(***************************************************************************)
(* The body of the loop of updateEnemies (lines 284-300) for enemy i.      *)
(* shot is this enemy's draw: 0 when Math.random() >= 0.005, otherwise the *)
(* new cooldown 1000 + Math.random() * 2000.                               *)
(***************************************************************************)
updateEnemy_neverLeaves(s, i, deltaTime, shot) ==
    LET enemy == s.enemies[i]
        moved == [enemy EXCEPT
                    !.position.x = @ + (enemy.velocity.x * deltaTime * s.gameSpeed) \div 5,
                    !.position.y = @ + (enemy.velocity.y * deltaTime * s.gameSpeed) \div 5]
        cooled == [moved EXCEPT !.shootCooldown = Max(0, @ - deltaTime)]
    IN  IF ~enemy.active THEN s
        ELSE IF cooled.shootCooldown <= 0 /\ shot # 0
        THEN [s EXCEPT !.projectiles = Append(@, createEnemyProjectile(cooled, s.nextId)),
                       !.nextId = @ + 1,
                       !.enemies[i] = [cooled EXCEPT !.shootCooldown = shot]]
        ELSE [s EXCEPT !.enemies[i] = cooled]

updateEnemy_keepsCooldown(s, i, deltaTime, shot) ==
    LET enemy == s.enemies[i]
        moved == [enemy EXCEPT
                    !.position.x = @ + (enemy.velocity.x * deltaTime * s.gameSpeed) \div 5,
                    !.position.y = @ + (enemy.velocity.y * deltaTime * s.gameSpeed) \div 5]
        bounded == IF moved.position.y > s.canvas.height + Px(50)
                   THEN [moved EXCEPT !.active = FALSE]
                   ELSE moved
        cooled == [bounded EXCEPT !.shootCooldown = Max(0, @ - deltaTime)]
    IN  IF ~enemy.active THEN s
        ELSE IF cooled.shootCooldown <= 0 /\ shot # 0
        THEN [s EXCEPT !.projectiles = Append(@, createEnemyProjectile(cooled, s.nextId)),
                       !.nextId = @ + 1,
                       !.enemies[i] = cooled]
        ELSE [s EXCEPT !.enemies[i] = cooled]

updateEnemy(s, i, deltaTime, shot) ==
    LET enemy == s.enemies[i]
        moved == [enemy EXCEPT
                    !.position.x = @ + (enemy.velocity.x * deltaTime * s.gameSpeed) \div 5,
                    !.position.y = @ + (enemy.velocity.y * deltaTime * s.gameSpeed) \div 5]
        bounded == IF moved.position.y > s.canvas.height + Px(50)
                   THEN [moved EXCEPT !.active = FALSE]
                   ELSE moved
        cooled == [bounded EXCEPT !.shootCooldown = Max(0, @ - deltaTime)]
    IN  IF ~enemy.active THEN s
        ELSE IF cooled.shootCooldown <= 0 /\ shot # 0
        THEN [s EXCEPT !.projectiles = Append(@, createEnemyProjectile(cooled, s.nextId)),
                       !.nextId = @ + 1,
                       !.enemies[i] = [cooled EXCEPT !.shootCooldown = shot]]
        ELSE [s EXCEPT !.enemies[i] = cooled]

(***************************************************************************)
(* updateEnemies (lines 280-302): the loop, from enemy i on.               *)
(***************************************************************************)
RECURSIVE updateEnemiesFrom(_, _, _, _)
updateEnemiesFrom(s, i, deltaTime, shots) ==
    IF i > Len(s.enemies) THEN s
    ELSE updateEnemiesFrom(updateEnemy(s, i, deltaTime, shots[i]), i + 1, deltaTime, shots)

updateEnemies(s, deltaTime, shots) == updateEnemiesFrom(s, 1, deltaTime, shots)

(***************************************************************************)
(* updateProjectiles (lines 304-320).                                      *)
(***************************************************************************)
updateProjectile_unbounded(s, projectile, deltaTime) ==
    IF ~projectile.active THEN projectile
    ELSE [projectile EXCEPT
            !.position.x = @ + projectile.velocity.x * deltaTime,
            !.position.y = @ + projectile.velocity.y * deltaTime]

updateProjectile(s, projectile, deltaTime) ==
    LET moved == [projectile EXCEPT
                    !.position.x = @ + projectile.velocity.x * deltaTime,
                    !.position.y = @ + projectile.velocity.y * deltaTime]
    IN  IF ~projectile.active THEN projectile
        ELSE IF \/ moved.position.y < -Px(10)
                \/ moved.position.y > s.canvas.height + Px(10)
                \/ moved.position.x < -Px(10)
                \/ moved.position.x > s.canvas.width + Px(10)
        THEN [moved EXCEPT !.active = FALSE]
        ELSE moved

updateProjectiles(s, deltaTime) ==
    [s EXCEPT !.projectiles =
        [i \in 1..Len(s.projectiles) |-> updateProjectile(s, s.projectiles[i], deltaTime)]]

(***************************************************************************)
(* updatePowerUps (lines 322-335).  The velocity of a power-up is not      *)
(* integrated: only the frame-count bob moves it.                          *)
(***************************************************************************)
updatePowerUp(s, powerUp, deltaTime) ==
    LET ticked == [powerUp EXCEPT !.position.y = @ + Bob(s.frameCount),
                                  !.duration = @ - deltaTime]
    IN  IF ~powerUp.active THEN powerUp
        ELSE IF ticked.duration <= 0 THEN [ticked EXCEPT !.active = FALSE]
        ELSE ticked

updatePowerUps(s, deltaTime) ==
    [s EXCEPT !.powerUps =
        [i \in 1..Len(s.powerUps) |-> updatePowerUp(s, s.powerUps[i], deltaTime)]]

(***************************************************************************)
(* updateParticles (lines 337-353).                                        *)
(***************************************************************************)
updateParticle(particle, deltaTime) ==
    LET aged == [particle EXCEPT
                    !.position.x = @ + particle.velocity.x * deltaTime,
                    !.position.y = @ + particle.velocity.y * deltaTime,
                    !.life = @ - deltaTime]
    IN  IF ~particle.active THEN particle
        ELSE IF aged.life <= 0 THEN [aged EXCEPT !.active = FALSE]
        ELSE aged

updateParticles(s, deltaTime) ==
    [s EXCEPT !.particles =
        [i \in 1..Len(s.particles) |-> updateParticle(s.particles[i], deltaTime)]]

(***************************************************************************)
(* spawnEnemy (lines 528-556).  r is the draw: type, x, velocityX and      *)
(* shootCooldown.                                                          *)
(***************************************************************************)
spawnEnemy(s, r) ==
    LET enemy ==
            [id |-> s.nextId,
             position |-> Vec(r.x, -Px(30)),
             velocity |-> Vec(r.velocityX,
                              IF r.type = "fast" THEN 120
                              ELSE IF r.type = "heavy" THEN 50 ELSE 80),
             size |-> IF r.type = "fast" THEN Vec(Px(25), Px(25))
                      ELSE IF r.type = "heavy" THEN Vec(Px(40), Px(40))
                      ELSE Vec(Px(30), Px(30)),
             active |-> TRUE,
             type |-> r.type,
             health |-> IF r.type = "heavy" THEN 75 ELSE IF r.type = "fast" THEN 25 ELSE 50,
             points |-> IF r.type = "heavy" THEN 200 ELSE IF r.type = "fast" THEN 150 ELSE 100,
             shootCooldown |-> r.shootCooldown]
    IN  [s EXCEPT !.enemies = Append(@, enemy), !.nextId = @ + 1]

(***************************************************************************)
(* spawnPowerUp (lines 558-575).  r is the draw: type and x.  spawnedAt    *)
(* records the timestamp of the tick that creates the power-up.            *)
(***************************************************************************)
spawnPowerUp(s, r) ==
    LET powerUp ==
            [id |-> s.nextId,
             position |-> Vec(r.x, -Px(20)),
             velocity |-> Vec(0, 60),
             size |-> Vec(Px(25), Px(25)),
             active |-> TRUE,
             type |-> r.type,
             duration |-> 8000,
             spawnedAt |-> s.lastTime]
    IN  [s EXCEPT !.powerUps = Append(@, powerUp), !.nextId = @ + 1]

(***************************************************************************)
(* updateSpawning (lines 355-369).  ENEMY_SPAWN_RATE / gameSpeed is        *)
(* rounded down to a millisecond.                                          *)
(***************************************************************************)
updateSpawning_carry(s, deltaTime, enemyDraw, powerUpDraw) ==
    LET t1 == s.enemySpawnTimer - deltaTime
        s1 == IF t1 <= 0
              THEN [spawnEnemy(s, enemyDraw) EXCEPT
                        !.enemySpawnTimer = t1 + (ENEMY_SPAWN_RATE * 5) \div s.gameSpeed]
              ELSE [s EXCEPT !.enemySpawnTimer = t1]
        t2 == s1.powerUpSpawnTimer - deltaTime
    IN  IF t2 <= 0
        THEN [spawnPowerUp(s1, powerUpDraw) EXCEPT
                  !.powerUpSpawnTimer = t2 + POWERUP_SPAWN_RATE]
        ELSE [s1 EXCEPT !.powerUpSpawnTimer = t2]

updateSpawning(s, deltaTime, enemyDraw, powerUpDraw) ==
    LET t1 == s.enemySpawnTimer - deltaTime
        s1 == IF t1 <= 0
              THEN [spawnEnemy(s, enemyDraw) EXCEPT
                        !.enemySpawnTimer = (ENEMY_SPAWN_RATE * 5) \div s.gameSpeed]
              ELSE [s EXCEPT !.enemySpawnTimer = t1]
        t2 == s1.powerUpSpawnTimer - deltaTime
    IN  IF t2 <= 0
        THEN [spawnPowerUp(s1, powerUpDraw) EXCEPT !.powerUpSpawnTimer = POWERUP_SPAWN_RATE]
        ELSE [s1 EXCEPT !.powerUpSpawnTimer = t2]

(***************************************************************************)
(* createParticles (lines 577-594).  All particles of the bursts of one    *)
(* tick share one draw of velocity and life.  id is the identity of the    *)
(* object created, here and in the other constructors of objects.          *)
(***************************************************************************)
createParticles_none(s, position, color, count, draw) == s

createParticles(s, position, color, count, draw) ==
    LET particle ==
            [id |-> s.nextId,
             position |-> position,
             velocity |-> draw.velocity,
             size |-> Vec(Px(3), Px(3)),
             active |-> TRUE,
             life |-> draw.life,
             maxLife |-> 1000,
             color |-> color]
    IN  [s EXCEPT !.particles = @ \o [i \in 1..count |-> [particle EXCEPT !.id = @ + i - 1]],
                  !.nextId = @ + count]

(***************************************************************************)
(* handleCollisions, player projectiles vs enemies (lines 373-396).        *)
(* hitEnemy is the body of the if at line 379 for projectile pi and        *)
(* enemy ei.                                                               *)
(***************************************************************************)
hitEnemy_penalty(s, pi, ei, draw) ==
    LET enemy == s.enemies[ei]
        health == enemy.health - s.projectiles[pi].damage
        s1 == createParticles(
                  [s EXCEPT !.projectiles[pi].active = FALSE,
                            !.enemies[ei].health = health],
                  enemy.position, "#ff6b6b", 5, draw)
    IN  IF health <= 0
        THEN createParticles(
                 [s1 EXCEPT !.enemies[ei].active = FALSE,
                            !.score = @ - enemy.points,
                            !.log = Append(@, Call("onScoreChange", s1.score - enemy.points))],
                 enemy.position, "#ffd93d", 10, draw)
        ELSE s1

hitEnemy_flatPoints(s, pi, ei, draw) ==
    LET enemy == s.enemies[ei]
        health == enemy.health - s.projectiles[pi].damage
        s1 == createParticles(
                  [s EXCEPT !.projectiles[pi].active = FALSE,
                            !.enemies[ei].health = health],
                  enemy.position, "#ff6b6b", 5, draw)
    IN  IF health <= 0
        THEN createParticles(
                 [s1 EXCEPT !.enemies[ei].active = FALSE,
                            !.score = @ + 100,
                            !.log = Append(@, Call("onScoreChange", s1.score + 100))],
                 enemy.position, "#ffd93d", 10, draw)
        ELSE s1

hitEnemy(s, pi, ei, draw) ==
    LET enemy == s.enemies[ei]
        health == enemy.health - s.projectiles[pi].damage
        s1 == createParticles(
                  [s EXCEPT !.projectiles[pi].active = FALSE,
                            !.enemies[ei].health = health],
                  enemy.position, "#ff6b6b", 5, draw)
    IN  IF health <= 0
        THEN createParticles(
                 [s1 EXCEPT !.enemies[ei].active = FALSE,
                            !.score = @ + enemy.points,
                            !.log = Append(@, Call("onScoreChange", s1.score + enemy.points))],
                 enemy.position, "#ffd93d", 10, draw)
        ELSE s1

\* The inner loop (lines 376-395), from enemy ei on: it tests enemy.active
\* only, and has no break after a hit.
RECURSIVE projectileVsEnemies(_, _, _, _)
projectileVsEnemies(s, pi, ei, draw) ==
    IF ei > Len(s.enemies) THEN s
    ELSE IF s.enemies[ei].active /\ checkCollision(s.projectiles[pi], s.enemies[ei])
    THEN projectileVsEnemies(hitEnemy(s, pi, ei, draw), pi, ei + 1, draw)
    ELSE projectileVsEnemies(s, pi, ei + 1, draw)

\* The outer loop (lines 373-396), from projectile pi on.
RECURSIVE playerProjectilesVsEnemies(_, _, _)
playerProjectilesVsEnemies(s, pi, draw) ==
    IF pi > Len(s.projectiles) THEN s
    ELSE IF ~s.projectiles[pi].active \/ s.projectiles[pi].owner # "player"
    THEN playerProjectilesVsEnemies(s, pi + 1, draw)
    ELSE playerProjectilesVsEnemies(projectileVsEnemies(s, pi, 1, draw), pi + 1, draw)

(***************************************************************************)
(* The test both passes make before they damage the player (lines 406 and  *)
(* 427): this.player.powerUps.has('shield').                               *)
(***************************************************************************)
hasShield_never(player) == FALSE

hasShield(player) == "shield" \in DOMAIN player.powerUps

(***************************************************************************)
(* The damage both passes deal to an unshielded player (lines 407-415 and  *)
(* 428-436): count is the number of particles.                             *)
(***************************************************************************)
damagePlayer_silent(s, color, count, draw) ==
    LET lives == s.lives - 1
        s1 == createParticles([s EXCEPT !.lives = lives],
                              s.player.position, color, count, draw)
    IN  IF lives <= 0
        THEN [s1 EXCEPT !.log = Append(@, Call("onGameOver", <<>>)),
                        !.gameOverCalls = @ + 1]
        ELSE s1

damagePlayer_twice(s, color, count, draw) ==
    LET lives == s.lives - 2
        s1 == createParticles(
                  [s EXCEPT !.lives = lives,
                            !.log = Append(@, Call("onLivesChange", lives))],
                  s.player.position, color, count, draw)
    IN  IF lives <= 0
        THEN [s1 EXCEPT !.log = Append(@, Call("onGameOver", <<>>)),
                        !.gameOverCalls = @ + 1]
        ELSE s1

damagePlayer(s, color, count, draw) ==
    LET lives == s.lives - 1
        s1 == createParticles(
                  [s EXCEPT !.lives = lives,
                            !.log = Append(@, Call("onLivesChange", lives))],
                  s.player.position, color, count, draw)
    IN  IF lives <= 0
        THEN [s1 EXCEPT !.log = Append(@, Call("onGameOver", <<>>)),
                        !.gameOverCalls = @ + 1]
        ELSE s1

(***************************************************************************)
(* handleCollisions, enemy projectiles vs player (lines 399-418).          *)
(***************************************************************************)
RECURSIVE enemyProjectilesVsPlayer(_, _, _)
enemyProjectilesVsPlayer(s, pi, draw) ==
    IF pi > Len(s.projectiles) THEN s
    ELSE IF ~s.projectiles[pi].active \/ s.projectiles[pi].owner # "enemy"
    THEN enemyProjectilesVsPlayer(s, pi + 1, draw)
    ELSE IF checkCollision(s.projectiles[pi], s.player)
    THEN LET s1 == [s EXCEPT !.projectiles[pi].active = FALSE]
         IN  enemyProjectilesVsPlayer(
                 IF ~hasShield(s1.player)
                 THEN damagePlayer(s1, "#ff4757", 8, draw)
                 ELSE s1,
                 pi + 1, draw)
    ELSE enemyProjectilesVsPlayer(s, pi + 1, draw)

(***************************************************************************)
(* handleCollisions, player vs enemies (lines 421-439).                    *)
(***************************************************************************)
RECURSIVE playerVsEnemies(_, _, _)
playerVsEnemies(s, ei, draw) ==
    IF ei > Len(s.enemies) THEN s
    ELSE IF s.enemies[ei].active /\ checkCollision(s.player, s.enemies[ei])
    THEN LET s1 == [s EXCEPT !.enemies[ei].active = FALSE]
         IN  playerVsEnemies(
                 IF ~hasShield(s1.player)
                 THEN damagePlayer(s1, "#ff6b6b", 12, draw)
                 ELSE s1,
                 ei + 1, draw)
    ELSE playerVsEnemies(s, ei + 1, draw)

(***************************************************************************)
(* handleCollisions, player vs power-ups (lines 442-452).                  *)
(* Map.set: the entry of the power-up's type becomes its duration.         *)
(***************************************************************************)
mapSet(map, key, value) ==
    [t \in DOMAIN map \cup {key} |-> IF t = key THEN value ELSE map[t]]

pickUp_dropped(s, ui, draw) == s

pickUp_refilled(s, ui, draw) ==
    LET powerUp == s.powerUps[ui]
    IN  createParticles(
            [s EXCEPT !.powerUps[ui].active = FALSE,
                      !.player.powerUps = mapSet(@, powerUp.type, 8000)],
            powerUp.position, "#6c5ce7", 8, draw)

pickUp(s, ui, draw) ==
    LET powerUp == s.powerUps[ui]
    IN  createParticles(
            [s EXCEPT !.powerUps[ui].active = FALSE,
                      !.player.powerUps = mapSet(@, powerUp.type, powerUp.duration)],
            powerUp.position, "#6c5ce7", 8, draw)

RECURSIVE playerVsPowerUps(_, _, _)
playerVsPowerUps(s, ui, draw) ==
    IF ui > Len(s.powerUps) THEN s
    ELSE IF s.powerUps[ui].active /\ checkCollision(s.player, s.powerUps[ui])
    THEN playerVsPowerUps(pickUp(s, ui, draw), ui + 1, draw)
    ELSE playerVsPowerUps(s, ui + 1, draw)

(***************************************************************************)
(* handleCollisions (lines 371-453).                                       *)
(***************************************************************************)
handleCollisions(s, draw) ==
    playerVsPowerUps(
        playerVsEnemies(
            enemyProjectilesVsPlayer(
                playerProjectilesVsEnemies(s, 1, draw),
                1, draw),
            1, draw),
        1, draw)

(***************************************************************************)
(* updateGameState (lines 455-463).                                        *)
(***************************************************************************)
updateGameState_sameSpeed(s) ==
    LET newLevel == (s.score \div 1000) + 1
    IN  IF newLevel # s.level
        THEN [s EXCEPT !.level = newLevel,
                       !.log = Append(@, Call("onLevelChange", newLevel))]
        ELSE s

updateGameState_always(s) ==
    LET newLevel == (s.score \div 1000) + 1
    IN  [s EXCEPT !.level = newLevel,
                  !.gameSpeed = 5 + (newLevel - 1),
                  !.log = Append(@, Call("onLevelChange", newLevel))]

updateGameState(s) ==
    LET newLevel == (s.score \div 1000) + 1
    IN  IF newLevel # s.level
        THEN [s EXCEPT !.level = newLevel,
                       !.gameSpeed = 5 + (newLevel - 1),
                       !.log = Append(@, Call("onLevelChange", newLevel))]
        ELSE s

(***************************************************************************)
(* cleanup (lines 465-470).                                                *)
(***************************************************************************)
IsActive(obj) == obj.active

cleanup_keepsProjectiles(s) ==
    [s EXCEPT !.enemies = SelectSeq(@, IsActive),
              !.powerUps = SelectSeq(@, IsActive),
              !.particles = SelectSeq(@, IsActive)]

cleanup(s) ==
    [s EXCEPT !.enemies = SelectSeq(@, IsActive),
              !.projectiles = SelectSeq(@, IsActive),
              !.powerUps = SelectSeq(@, IsActive),
              !.particles = SelectSeq(@, IsActive)]

(***************************************************************************)
(* update (lines 205-230), up to the call of handleCollisions.  r holds    *)
(* the Math.random() draws of the tick: shots (one per enemy), enemy and   *)
(* powerUp (the spawns) and particles.                                     *)
(***************************************************************************)
beforeCollisions(s, timestamp, r) ==
    LET deltaTime == timestamp - s.lastTime
        s0 == [s EXCEPT !.lastTime = timestamp, !.frameCount = @ + 1]
    IN  updateSpawning(
            updateParticles(
                updatePowerUps(
                    updateProjectiles(
                        updateEnemies(updatePlayer(s0, deltaTime), deltaTime, r.shots),
                        deltaTime),
                    deltaTime),
                deltaTime),
            deltaTime, r.enemy, r.powerUp)

(***************************************************************************)
(* reset (lines 756-782).                                                  *)
(***************************************************************************)
reset_keepsLives(s) ==
    [s EXCEPT !.score = 0,
              !.level = 1,
              !.gameSpeed = 5,
              !.player.position = Vec(s.canvas.width \div 2, s.canvas.height - Px(60)),
              !.player.health = 100,
              !.player.powerUps = EmptyMap,
              !.enemies = <<>>,
              !.projectiles = <<>>,
              !.powerUps = <<>>,
              !.particles = <<>>,
              !.enemySpawnTimer = 0,
              !.powerUpSpawnTimer = POWERUP_SPAWN_RATE,
              !.log = <<Call("onScoreChange", 0),
                        Call("onLivesChange", s.lives),
                        Call("onLevelChange", 1),
                        Call("onPowerUpChange", {})>>]

reset_keepsTimers(s) ==
    [s EXCEPT !.score = 0,
              !.lives = 3,
              !.level = 1,
              !.gameSpeed = 5,
              !.player.position = Vec(s.canvas.width \div 2, s.canvas.height - Px(60)),
              !.player.health = 100,
              !.player.powerUps = EmptyMap,
              !.enemies = <<>>,
              !.projectiles = <<>>,
              !.powerUps = <<>>,
              !.particles = <<>>,
              !.log = <<Call("onScoreChange", 0),
                        Call("onLivesChange", 3),
                        Call("onLevelChange", 1),
                        Call("onPowerUpChange", {})>>]

reset(s) ==
    [s EXCEPT !.score = 0,
              !.lives = 3,
              !.level = 1,
              !.gameSpeed = 5,
              !.player.position = Vec(s.canvas.width \div 2, s.canvas.height - Px(60)),
              !.player.health = 100,
              !.player.powerUps = EmptyMap,
              !.enemies = <<>>,
              !.projectiles = <<>>,
              !.powerUps = <<>>,
              !.particles = <<>>,
              !.enemySpawnTimer = 0,
              !.powerUpSpawnTimer = POWERUP_SPAWN_RATE,
              !.log = <<Call("onScoreChange", 0),
                        Call("onLivesChange", 3),
                        Call("onLevelChange", 1),
                        Call("onPowerUpChange", {})>>]

(***************************************************************************)
(* setPlayerInput (lines 201-203).                                         *)
(***************************************************************************)
setPlayerInput(s, action, pressed) == [s EXCEPT !.input[action] = pressed]

(***************************************************************************)
(* The state machine.  An operation runs on the engine's fields together   *)
(* with an empty log, the count of onGameOver calls and the next identity. *)
(***************************************************************************)
EngineFields == DOMAIN NewEngine(ContactCanvas)

Running == [f \in EngineFields \cup {"log", "gameOverCalls", "nextId"} |->
                IF f = "log" THEN <<>>
                ELSE IF f = "gameOverCalls" THEN gameOverCalls
                ELSE IF f = "nextId" THEN nextId
                ELSE engine[f]]

Fields(s) == [f \in EngineFields |-> s[f]]

\* What a snapshot keeps of the engine.
Snapshot(s) ==
    [score |-> s.score,
     lives |-> s.lives,
     level |-> s.level,
     player |-> s.player,
     enemies |-> s.enemies,
     projectiles |-> s.projectiles,
     powerUps |-> s.powerUps,
     particles |-> s.particles,
     gameSpeed |-> s.gameSpeed,
     lastTime |-> s.lastTime,
     enemySpawnTimer |-> s.enemySpawnTimer,
     powerUpSpawnTimer |-> s.powerUpSpawnTimer,
     nextId |-> s.nextId]

NoSnapshot ==
    [score |-> 0, lives |-> 0, level |-> 0, player |-> <<>>, enemies |-> <<>>,
     projectiles |-> <<>>, powerUps |-> <<>>, particles |-> <<>>,
     gameSpeed |-> 0, lastTime |-> 0, enemySpawnTimer |-> 0, powerUpSpawnTimer |-> 0,
     nextId |-> 0]

\* The identities of the objects of a snapshot whose active flag is false.
Inactive(snapshot) ==
    {o.id : o \in {snapshot.enemies[i] : i \in 1..Len(snapshot.enemies)}
                  \cup {snapshot.projectiles[i] : i \in 1..Len(snapshot.projectiles)}
                  \cup {snapshot.powerUps[i] : i \in 1..Len(snapshot.powerUps)}
                  \cup {snapshot.particles[i] : i \in 1..Len(snapshot.particles)}}
    \ {o.id : o \in {x \in {snapshot.enemies[i] : i \in 1..Len(snapshot.enemies)}
                            \cup {snapshot.projectiles[i] : i \in 1..Len(snapshot.projectiles)}
                            \cup {snapshot.powerUps[i] : i \in 1..Len(snapshot.powerUps)}
                            \cup {snapshot.particles[i] : i \in 1..Len(snapshot.particles)} :
                        x.active}}

(***************************************************************************)
(* The presentation (src/unnamed/part_001): score, lives, level and the    *)
(* power-up list are React state, initially 0, 3, 1 and [], and each       *)
(* callback of the engine is the setter of one of them.                    *)
(***************************************************************************)
InitialView == [score |-> 0, lives |-> 3, level |-> 1, activePowerUps |-> {}]

RECURSIVE Deliver(_, _)
Deliver(v, calls) ==
    IF calls = <<>> THEN v
    ELSE LET call == Head(calls)
         IN  Deliver(
                 IF call.cb = "onScoreChange" THEN [v EXCEPT !.score = call.arg]
                 ELSE IF call.cb = "onLivesChange" THEN [v EXCEPT !.lives = call.arg]
                 ELSE IF call.cb = "onLevelChange" THEN [v EXCEPT !.level = call.arg]
                 ELSE IF call.cb = "onPowerUpChange"
                      THEN [v EXCEPT !.activePowerUps = call.arg]
                 ELSE v,
                 Tail(calls))

(***************************************************************************)
(* The shots of updatePlayer (lines 255-260) since the shoot key went down *)
(* on a cooldown of 0: when that was, how many update() calls fired, the   *)
(* deltaTimes of the calls, and whether the mapping had a rapidFire entry  *)
(* in all of them (rapid) or in none of them (plain).                      *)
(***************************************************************************)
NotHeld == [since |-> -1, shots |-> 0, steps |-> {}, rapid |-> FALSE, plain |-> FALSE]

heldAfterInput(action, pressed) ==
    IF action # "shoot" THEN held
    ELSE IF ~pressed THEN NotHeld
    ELSE IF engine.input.shoot THEN held
    ELSE IF engine.player.shootCooldown = 0
    THEN [since |-> engine.lastTime, shots |-> 0, steps |-> {},
          rapid |-> TRUE, plain |-> TRUE]
    ELSE NotHeld

\* colIn is the engine as the update() left updateSpawning: the projectiles
\* with a new identity and the player as owner are those of this call.
heldAfterUpdate(deltaTime, colIn) ==
    IF held.since < 0 THEN held
    ELSE LET fired == \E i \in 1..Len(colIn.projectiles) :
                          /\ colIn.projectiles[i].owner = "player"
                          /\ colIn.projectiles[i].id >= nextId
             rapidFire == "rapidFire" \in DOMAIN engine.player.powerUps
         IN  [since |-> held.since,
              shots |-> held.shots + (IF fired THEN 1 ELSE 0),
              steps |-> held.steps \cup {deltaTime},
              rapid |-> held.rapid /\ rapidFire,
              plain |-> held.plain /\ ~rapidFire]

(***************************************************************************)
(* What happened since the construction or the last reset(): the lastTime  *)
(* of that moment, the update() calls since (counted up to 2), the         *)
(* deltaTime of the first of them and whether it spawned an enemy, and the *)
(* time accumulated when the first power-up was spawned (-1: none yet).    *)
(* shotAt is the lastTime of the last shot of each enemy of the store, and *)
(* gaps the times between that shot and the shot of the last update().     *)
(***************************************************************************)
NoHistory(start) ==
    [start |-> start, updates |-> 0, firstDelta |-> 0, firstSpawned |-> FALSE,
     powerUpAfter |-> -1, shotAt |-> EmptyMap, gaps |-> {}]

\* The enemies that fired in the update() that left updateSpawning as colIn.
Shooters(colIn) ==
    {colIn.projectiles[i].shooter :
        i \in {j \in 1..Len(colIn.projectiles) :
                  /\ colIn.projectiles[j].owner = "enemy"
                  /\ colIn.projectiles[j].id >= nextId}}

historyAfterUpdate(deltaTime, u) ==
    LET now == engine.lastTime + deltaTime
        spawnedEnemy == Len(u.colIn.enemies) > Len(engine.enemies)
        spawnedPowerUp == Len(u.colIn.powerUps) > Len(engine.powerUps)
        kept == {u.s.enemies[i].id : i \in 1..Len(u.s.enemies)}
        fired == Shooters(u.colIn)
    IN  [start |-> history.start,
         updates |-> Min(history.updates + 1, 2),
         firstDelta |-> IF history.updates = 0 THEN deltaTime ELSE history.firstDelta,
         firstSpawned |-> IF history.updates = 0 THEN spawnedEnemy
                          ELSE history.firstSpawned,
         powerUpAfter |-> IF history.powerUpAfter = -1 /\ spawnedPowerUp
                          THEN now - history.start
                          ELSE history.powerUpAfter,
         shotAt |-> [id \in kept \cap (fired \cup DOMAIN history.shotAt) |->
                        IF id \in fired THEN now ELSE history.shotAt[id]],
         gaps |-> {now - history.shotAt[id] : id \in fired \cap DOMAIN history.shotAt}]

\* Without a Game component and without an AudioManager.
NoDriver == [gameState |-> "menu", now |-> 0, atPause |-> NoSnapshot]

NoAudioManager ==
    [context |-> "none", initialized |-> FALSE, sounds |-> {}, todo |-> <<>>,
     initializing |-> FALSE, resuming |-> FALSE]

InitOn(canvases) ==
    /\ \E canvas \in canvases : engine = NewEngine(canvas)
    /\ history = NoHistory(0)
    /\ driver = NoDriver
    /\ audio = NoAudioManager
    /\ log = <<>>
    /\ gameOverCalls = 0
    /\ nextId = 1
    /\ dead = {}
    /\ inputs = 0
    /\ resets = 0
    /\ view = InitialView
    /\ held = NotHeld
    /\ last = [op |-> "constructor", deltaTime |-> 0, before |-> Snapshot(Running),
               colIn |-> NoSnapshot, colOut |-> NoSnapshot]

Init == InitOn(Canvases)

\* setPlayerInput(action, pressed) of the engine.
Key(action, pressed) ==
    /\ engine' = Fields(setPlayerInput(Running, action, pressed))
    /\ log' = <<>>
    /\ inputs' = inputs + 1
    /\ held' = heldAfterInput(action, pressed)
    /\ last' = [op |-> "setPlayerInput", deltaTime |-> 0, before |-> Snapshot(Running),
                colIn |-> NoSnapshot, colOut |-> NoSnapshot]
    /\ UNCHANGED <<gameOverCalls, nextId, dead, resets, view, history>>

SetPlayerInput ==
    /\ inputs < MaxInputs
    /\ \E action \in {"left", "right", "shoot"}, pressed \in BOOLEAN :
           Key(action, pressed)
    /\ UNCHANGED <<driver, audio>>

\* The enemies whose cooldown is 0 after the decrement: those for which
\* updateEnemies evaluates Math.random() < 0.005.
MayShoot(deltaTime) ==
    {i \in 1..Len(engine.enemies) :
        /\ engine.enemies[i].active
        /\ Max(0, engine.enemies[i].shootCooldown - deltaTime) <= 0}

\* On the 867 pixels high canvas the draws are those of a run in which
\* every enemy is a fast one and none of them fires; on the canvas of the
\* Game component, of a run in which every enemy is a basic one, none of
\* them fires and every power-up is a rapidFire.
EnemyDraws ==
    [type : IF engine.canvas = LevelCanvas THEN {"fast"}
            ELSE IF engine.canvas = DriverCanvas THEN {"basic"}
            ELSE EnemyTypes,
     x : EnemyXs(engine.canvas), velocityX : EnemyVelocityXs,
     shootCooldown : EnemySpawnCooldowns]

ShotDraws ==
    IF engine.canvas \in {LevelCanvas, DriverCanvas} THEN {0}
    ELSE {0} \cup EnemyShotCooldowns

PowerUpDraws ==
    [type : IF engine.canvas = DriverCanvas THEN {"rapidFire"} ELSE PowerUpTypes,
     x : PowerUpXs(engine.canvas)]

\* One update(timestamp) (lines 205-230) with the draws r, and the engine
\* as handleCollisions found it (colIn) and left it (colOut).
Updated(timestamp, r) ==
    LET colIn == beforeCollisions(Running, timestamp, r)
        colOut == handleCollisions(colIn, r.particles)
    IN  [s |-> cleanup(updateGameState(colOut)),
         colIn |-> Snapshot(colIn),
         colOut |-> Snapshot(colOut)]

\* update(lastTime + deltaTime), for every outcome of the draws.
Tick(deltaTime) ==
    \E shooting \in [MayShoot(deltaTime) -> ShotDraws] :
    \E enemyDraw \in IF engine.enemySpawnTimer - deltaTime <= 0
                     THEN EnemyDraws ELSE {CHOOSE d \in EnemyDraws : TRUE} :
    \E powerUpDraw \in IF engine.powerUpSpawnTimer - deltaTime <= 0
                       THEN PowerUpDraws ELSE {CHOOSE d \in PowerUpDraws : TRUE} :
    \E particleDraw \in ParticleDraws :
    \E u \in {Updated(engine.lastTime + deltaTime,
                      [shots |-> [i \in 1..Len(engine.enemies) |->
                                     IF i \in DOMAIN shooting THEN shooting[i] ELSE 0],
                       enemy |-> enemyDraw,
                       powerUp |-> powerUpDraw,
                       particles |-> particleDraw])} :
       /\ engine' = Fields(u.s)
       /\ log' = u.s.log
       /\ gameOverCalls' = u.s.gameOverCalls
       /\ nextId' = u.s.nextId
       /\ dead' = dead \cup Inactive(u.colOut)
       /\ view' = Deliver(view, u.s.log)
       /\ held' = heldAfterUpdate(deltaTime, u.colIn)
       /\ history' = historyAfterUpdate(deltaTime, u)
       /\ last' = [op |-> "update", deltaTime |-> deltaTime,
                   before |-> Snapshot(Running),
                   colIn |-> u.colIn, colOut |-> u.colOut]
       /\ UNCHANGED <<inputs, resets>>

Update ==
    /\ engine.frameCount < TicksOn(engine.canvas)
    /\ \E deltaTime \in DeltaTimes(engine.canvas) : Tick(deltaTime)
    /\ UNCHANGED <<driver, audio>>

Reset ==
    /\ resets < MaxResets
    /\ \E s \in {reset(Running)} :
           /\ engine' = Fields(s)
           /\ log' = s.log
           /\ gameOverCalls' = 0
           /\ resets' = resets + 1
           /\ view' = Deliver(view, s.log)
           /\ held' = NotHeld
           /\ history' = NoHistory(engine.lastTime)
           /\ last' = [op |-> "reset", deltaTime |-> 0, before |-> Snapshot(Running),
                       colIn |-> NoSnapshot, colOut |-> NoSnapshot]
           /\ UNCHANGED <<nextId, dead, inputs, driver, audio>>

Next == SetPlayerInput \/ Update \/ Reset

Spec == Init /\ [][Next]_vars

(***************************************************************************)
(* Longer runs of the engine on the 60 pixels high canvas with the         *)
(* timestamps going forward.                                               *)
(***************************************************************************)
MaxLongTicks == 4

LongDeltaTimes == {100, 4000}

UpdateLong ==
    /\ engine.frameCount < MaxLongTicks
    /\ \E deltaTime \in LongDeltaTimes : Tick(deltaTime)
    /\ UNCHANGED <<driver, audio>>

NextLong == UpdateLong \/ Reset

SpecLong == InitOn({ContactCanvas}) /\ [][NextLong]_vars

(***************************************************************************)
(* Three ticks of two seconds on the 1079 pixels high canvas: an enemy     *)
(* spawned in the second tick can be a faster one than the enemy spawned   *)
(* in the first.                                                           *)
(***************************************************************************)
SpecOvertake == InitOn({OvertakeCanvas}) /\ [][Next]_vars

(***************************************************************************)
(* Runs of 1200 ms in which keys only go down: on the 170 pixels high      *)
(* canvas in ticks of 125, 250 and 500 ms, on the 60 pixels high one,      *)
(* where a rapidFire power-up can be picked up, in ticks of 200 ms.        *)
(***************************************************************************)
MaxCadenceTime == 1200
MaxCadenceInputs == 2

CadenceDeltaTimes(canvas) == IF canvas = ContactCanvas THEN {200} ELSE {125, 250, 500}

PressKey ==
    /\ inputs < MaxCadenceInputs
    /\ \E action \in {"left", "shoot"} :
           /\ ~engine.input[action]
           /\ Key(action, TRUE)
    /\ UNCHANGED <<driver, audio>>

UpdateCadence ==
    /\ \E deltaTime \in CadenceDeltaTimes(engine.canvas) :
           /\ engine.lastTime + deltaTime <= MaxCadenceTime
           /\ Tick(deltaTime)
    /\ UNCHANGED <<driver, audio>>

NextCadence == PressKey \/ UpdateCadence

SpecCadence == InitOn({ContactCanvas, ShootingCanvas}) /\ [][NextCadence]_vars

(***************************************************************************)
(* checkCollision (lines 472-477) on its own: two GameObjects with         *)
(* positions and positive sizes from a small grid, and one call each way.  *)
(***************************************************************************)
MaxCoordinate == 2
MaxSize == 2

GameObjects ==
    [position : [x : 0..MaxCoordinate, y : 0..MaxCoordinate],
     size : [x : 1..MaxSize, y : 1..MaxSize]]

InitCollision ==
    /\ engine = NewEngine(ContactCanvas)
    /\ log = <<>>
    /\ gameOverCalls = 0
    /\ nextId = 1
    /\ dead = {}
    /\ inputs = 0
    /\ resets = 0
    /\ view = InitialView
    /\ held = NotHeld
    /\ history = NoHistory(0)
    /\ driver = NoDriver
    /\ audio = NoAudioManager
    /\ \E obj1 \in GameObjects, obj2 \in GameObjects :
           last = [op |-> "objects", obj1 |-> obj1, obj2 |-> obj2]

CheckCollision ==
    /\ last.op = "objects"
    /\ last' = [op |-> "checkCollision", obj1 |-> last.obj1, obj2 |-> last.obj2,
                result |-> checkCollision(last.obj1, last.obj2),
                swapped |-> checkCollision(last.obj2, last.obj1)]
    /\ UNCHANGED <<engine, log, gameOverCalls, nextId, dead, inputs, resets, view, held,
                   history, driver, audio>>

SpecCollision == InitCollision /\ [][CheckCollision]_vars

(***************************************************************************)
(* AudioManager (src/unnamed/part_000).  context is "none" for null, and   *)
(* otherwise the state of the AudioContext; sounds are the keys of the     *)
(* buffer map; todo are the buffers createSounds has still to create while *)
(* initializeAudio is in progress (initializing); resuming says that a     *)
(* context.resume() is pending.  The constructor runs initializeAudio up   *)
(* to its first await: the AudioContext is created (or the attempt throws  *)
(* and is caught) and createShootSound has run (or thrown).                *)
(***************************************************************************)
Cues == <<"shoot", "explosion", "powerUp", "hit">>

SoundNames == {Cues[i] : i \in 1..Len(Cues)} \cup {"laser"}

NewAudioManagers ==
    {NoAudioManager}
    \cup {[context |-> c, initialized |-> FALSE, sounds |-> {Head(Cues)},
           todo |-> Tail(Cues), initializing |-> TRUE, resuming |-> FALSE] :
              c \in {"running", "suspended"}}
    \cup {[context |-> c, initialized |-> FALSE, sounds |-> {},
           todo |-> <<>>, initializing |-> FALSE, resuming |-> FALSE] :
              c \in {"running", "suspended"}}

(***************************************************************************)
(* playSound (lines 108-132).  fails says whether creating or starting the *)
(* source throws.  The result: whether a source was started, whether an    *)
(* error left playSound, and whether context.resume() was called.          *)
(***************************************************************************)
playSound_uncaught(a, soundName, fails) ==
    IF ~a.initialized \/ a.context = "none" \/ a.context = "suspended"
    THEN [started |-> FALSE, threw |-> FALSE, resume |-> a.context = "suspended"]
    ELSE IF soundName \notin a.sounds
    THEN [started |-> FALSE, threw |-> FALSE, resume |-> FALSE]
    ELSE [started |-> ~fails, threw |-> fails, resume |-> FALSE]

playSound(a, soundName, fails) ==
    IF ~a.initialized \/ a.context = "none" \/ a.context = "suspended"
    THEN [started |-> FALSE, threw |-> FALSE, resume |-> a.context = "suspended"]
    ELSE IF soundName \notin a.sounds
    THEN [started |-> FALSE, threw |-> FALSE, resume |-> FALSE]
    ELSE [started |-> ~fails, threw |-> FALSE, resume |-> FALSE]

\* dispose (lines 199-207).
dispose(a) == [a EXCEPT !.context = "none", !.sounds = {}, !.initialized = FALSE]

EngineIdle ==
    UNCHANGED <<engine, log, gameOverCalls, nextId, dead, inputs, resets, view, held,
                history, driver>>

\* One of createExplosionSound, createPowerUpSound, createHitSound (lines
\* 22-106): nothing without a context, otherwise the buffer is stored, or
\* createBuffer throws and initializeAudio ends in its catch.
CreateSound ==
    /\ audio.initializing
    /\ audio.todo # <<>>
    /\ \/ audio' = [audio EXCEPT
                        !.sounds = IF audio.context = "none" THEN @
                                   ELSE @ \cup {Head(audio.todo)},
                        !.todo = Tail(@)]
       \/ /\ audio.context # "none"
          /\ audio' = [audio EXCEPT !.todo = <<>>, !.initializing = FALSE]
    /\ last' = [op |-> "createSound"]
    /\ EngineIdle

\* initializeAudio after createSounds (line 16).
FinishInitialization ==
    /\ audio.initializing
    /\ audio.todo = <<>>
    /\ audio' = [audio EXCEPT !.initialized = TRUE, !.initializing = FALSE]
    /\ last' = [op |-> "initialized"]
    /\ EngineIdle

PlaySound ==
    \E soundName \in SoundNames, fails \in BOOLEAN :
        LET result == playSound(audio, soundName, fails)
        IN  /\ audio' = [audio EXCEPT !.resuming = @ \/ result.resume]
            /\ last' = [op |-> "playSound", soundName |-> soundName, fails |-> fails,
                        before |-> audio, started |-> result.started,
                        threw |-> result.threw]
            /\ EngineIdle

\* context.resume() of resumeAudio (lines 134-142) settles: the context
\* runs, or the promise is rejected and the rejection caught.
ResumeSettles ==
    /\ audio.resuming
    /\ \/ audio' = [audio EXCEPT
                        !.context = IF @ = "suspended" THEN "running" ELSE @,
                        !.resuming = FALSE]
       \/ audio' = [audio EXCEPT !.resuming = FALSE]
    /\ last' = [op |-> "resumed"]
    /\ EngineIdle

\* The browser suspends a running context.
Suspend ==
    /\ audio.context = "running"
    /\ audio' = [audio EXCEPT !.context = "suspended"]
    /\ last' = [op |-> "suspended"]
    /\ EngineIdle

Dispose ==
    /\ audio' = dispose(audio)
    /\ last' = [op |-> "dispose"]
    /\ EngineIdle

InitAudio ==
    /\ engine = NewEngine(ContactCanvas)
    /\ log = <<>>
    /\ gameOverCalls = 0
    /\ nextId = 1
    /\ dead = {}
    /\ inputs = 0
    /\ resets = 0
    /\ view = InitialView
    /\ held = NotHeld
    /\ history = NoHistory(0)
    /\ driver = NoDriver
    /\ audio \in NewAudioManagers
    /\ last = [op |-> "constructor"]

NextAudio ==
    \/ CreateSound
    \/ FinishInitialization
    \/ PlaySound
    \/ ResumeSettles
    \/ Suspend
    \/ Dispose

SpecAudio == InitAudio /\ [][NextAudio]_vars

(***************************************************************************)
(* The Game component (src/unnamed/part_001) under HomePage                *)
(* (src/src/app/page.tsx, lines 6-11 and 50).  driver.gameState is "menu"  *)
(* while HomePage's gameStarted is false and otherwise the gameState of    *)
(* Game; view is its score, lives, level and activePowerUps.  The effect   *)
(* of lines 24-63 has gameState as its dependency: it runs when Game is    *)
(* mounted and after every change of gameState, and each run assigns a new *)
(* GameEngine and a new AudioManager to the refs.  driver.now is the       *)
(* timestamp of the last animation frame, and driver.atPause the engine as *)
(* it was when gameState last became "paused".                             *)
(***************************************************************************)
MaxDriverTime == 17500

FrameTimes == {3500}

\* An AudioManager once the initializeAudio of its constructor has settled:
\* no AudioContext, or a context and the four buffers.
SettledAudioManagers ==
    {NoAudioManager}
    \cup {[context |-> c, initialized |-> TRUE, sounds |-> {Cues[i] : i \in 1..Len(Cues)},
           todo |-> <<>>, initializing |-> FALSE, resuming |-> FALSE] :
              c \in {"running", "suspended"}}

\* The effect of lines 24-63 after gameState went from one value to
\* another: nothing when they are equal.  The identities of the objects of
\* a new engine start at 1 again.
Effect(from, to, s) ==
    /\ engine' = IF from = to THEN Fields(s) ELSE NewEngine(DriverCanvas)
    /\ gameOverCalls' = IF from = to THEN s.gameOverCalls ELSE 0
    /\ nextId' = IF from = to THEN s.nextId ELSE 1
    /\ held' = IF from = to THEN held ELSE NotHeld
    /\ history' = IF from = to THEN history ELSE NoHistory(0)

EffectAudio(from, to, a) ==
    IF from = to THEN audio' = a ELSE audio' \in SettledAudioManagers

\* The Start button of HomePage (line 50) mounts Game.
StartGame ==
    /\ driver.gameState = "menu"
    /\ driver' = [driver EXCEPT !.gameState = "playing", !.atPause = NoSnapshot]
    /\ view' = InitialView
    /\ log' = <<>>
    /\ Effect("menu", "playing", Running)
    /\ EffectAudio("menu", "playing", audio)
    /\ last' = [op |-> "start", from |-> "menu", key |-> ""]
    /\ dead' = {}
    /\ UNCHANGED <<inputs, resets>>

\* gameLoop (lines 48-54) at the timestamp now + frameTime: update() and
\* render() while the gameState of this run of the effect is "playing".
\* onGameOver is setGameState('gameOver').
Frame ==
    \E frameTime \in FrameTimes :
    /\ driver.gameState \in {"paused", "gameOver"}
    /\ driver.now + frameTime <= MaxDriverTime
    /\ driver' = [driver EXCEPT !.now = @ + frameTime]
    /\ last' = [op |-> "frame", from |-> driver.gameState, key |-> ""]
    /\ UNCHANGED <<engine, log, gameOverCalls, nextId, dead, inputs, resets, view, held,
                   history, audio>>

FrameUpdate ==
    \E frameTime \in FrameTimes :
    LET timestamp == driver.now + frameTime
        deltaTime == timestamp - engine.lastTime
    IN
    /\ driver.gameState = "playing"
    /\ timestamp <= MaxDriverTime
    /\ \E enemyDraw \in EnemyDraws, powerUpDraw \in PowerUpDraws,
          particleDraw \in ParticleDraws :
       \E u \in {Updated(timestamp,
                         [shots |-> [i \in 1..Len(engine.enemies) |-> 0],
                          enemy |-> enemyDraw,
                          powerUp |-> powerUpDraw,
                          particles |-> particleDraw])} :
       LET to == IF \E i \in 1..Len(u.s.log) : u.s.log[i].cb = "onGameOver"
                 THEN "gameOver" ELSE "playing"
       IN  /\ driver' = [now |-> timestamp, gameState |-> to, atPause |-> NoSnapshot]
           /\ log' = u.s.log
           /\ dead' = IF to = "playing" THEN dead \cup Inactive(u.colOut) ELSE {}
           /\ view' = Deliver(view, u.s.log)
           /\ Effect("playing", to, u.s)
           /\ EffectAudio("playing", to, audio)
           /\ last' = [op |-> "frame", from |-> "playing", key |-> "",
                       deltaTime |-> deltaTime, before |-> Snapshot(Running),
                       colIn |-> u.colIn, colOut |-> u.colOut]
           /\ UNCHANGED <<inputs, resets>>

\* setGameState(to) in an event handler, and the effect.
SetGameState(op, key, to) ==
    /\ driver' = [driver EXCEPT
                     !.gameState = to,
                     !.atPause = IF to # "paused" \/ driver.gameState = "paused" THEN @
                                 ELSE IF driver.gameState = "playing"
                                 THEN Snapshot(Running)
                                 ELSE NoSnapshot]
    /\ log' = <<>>
    /\ Effect(driver.gameState, to, Running)
    /\ EffectAudio(driver.gameState, to, audio)
    /\ last' = [op |-> op, from |-> driver.gameState, key |-> key]
    /\ dead' = IF driver.gameState = to THEN dead ELSE {}
    /\ UNCHANGED <<inputs, resets, view>>

\* handleKeyPress (lines 67-97) for the keys a, space, p and Escape.
KeyDown ==
    /\ driver.gameState # "menu"
    /\ \/ /\ engine' = Fields(setPlayerInput(Running, "left", TRUE))
          /\ last' = [op |-> "keydown", from |-> driver.gameState, key |-> "a"]
          /\ log' = <<>>
          /\ UNCHANGED <<gameOverCalls, nextId, dead, inputs, resets, view, held,
                         history, driver, audio>>
       \/ \E fails \in BOOLEAN :
          LET result == playSound(audio, "shoot", fails)
          IN  /\ engine' = Fields(setPlayerInput(Running, "shoot", TRUE))
              /\ audio' = [audio EXCEPT !.resuming = @ \/ result.resume]
              /\ last' = [op |-> "keydown", from |-> driver.gameState, key |-> " ",
                          started |-> result.started, threw |-> result.threw]
              /\ log' = <<>>
              /\ UNCHANGED <<gameOverCalls, nextId, dead, inputs, resets, view, held,
                             history, driver>>
       \/ SetGameState("keydown", "p",
                       IF driver.gameState = "playing" THEN "paused" ELSE "playing")
       \/ SetGameState("keydown", "escape", "paused")

\* handleKeyRelease (lines 99-115) for the keys a and space.
KeyUp ==
    /\ driver.gameState # "menu"
    /\ \E action \in {"left", "shoot"} :
           /\ engine.input[action]
           /\ engine' = Fields(setPlayerInput(Running, action, FALSE))
           /\ last' = [op |-> "keyup", from |-> driver.gameState,
                       key |-> IF action = "left" THEN "a" ELSE " "]
    /\ log' = <<>>
    /\ UNCHANGED <<gameOverCalls, nextId, dead, inputs, resets, view, held,
                   history, driver, audio>>

\* The RESUME button of the pause overlay (line 197).
ClickResume ==
    /\ driver.gameState = "paused"
    /\ SetGameState("resume", "", "playing")

\* handleRestart (lines 126-136), the RESTART button of the pause overlay
\* and the PLAY AGAIN button of the game-over overlay: the setters, then
\* reset() on the engine of the ref, then the effect.
ClickRestart ==
    /\ driver.gameState \in {"paused", "gameOver"}
    /\ \E s \in {reset(Running)} :
           /\ driver' = [driver EXCEPT !.gameState = "playing", !.atPause = NoSnapshot]
           /\ view' = Deliver(InitialView, s.log)
           /\ log' = s.log
           /\ Effect(driver.gameState, "playing", s)
           /\ EffectAudio(driver.gameState, "playing", audio)
    /\ last' = [op |-> "restart", from |-> driver.gameState, key |-> ""]
    /\ dead' = {}
    /\ UNCHANGED <<inputs, resets>>

\* handleQuit (lines 138-143), the QUIT and BACK TO MENU buttons:
\* onGameEnd() is HomePage's setGameStarted(false), which unmounts Game.
ClickQuit ==
    /\ driver.gameState \in {"paused", "gameOver"}
    /\ driver' = [driver EXCEPT !.gameState = "menu"]
    /\ last' = [op |-> "quit", from |-> driver.gameState, key |-> ""]
    /\ UNCHANGED <<engine, log, gameOverCalls, nextId, dead, inputs, resets, view, held,
                   history, audio>>

InitDriver ==
    /\ engine = NewEngine(DriverCanvas)
    /\ log = <<>>
    /\ gameOverCalls = 0
    /\ nextId = 1
    /\ dead = {}
    /\ inputs = 0
    /\ resets = 0
    /\ view = InitialView
    /\ held = NotHeld
    /\ history = NoHistory(0)
    /\ driver = NoDriver
    /\ audio = NoAudioManager
    /\ last = [op |-> "home", from |-> "menu", key |-> ""]

NextDriver ==
    \/ StartGame
    \/ Frame
    \/ FrameUpdate
    \/ KeyDown
    \/ KeyUp
    \/ ClickResume
    \/ ClickRestart
    \/ ClickQuit
    \/ ResumeSettles

SpecDriver == InitDriver /\ [][NextDriver]_vars

(***************************************************************************)
(* What the properties below read off the last operation.                  *)
(***************************************************************************)
Objects(seq) == {seq[i] : i \in 1..Len(seq)}

Collections(s) ==
    Objects(s.enemies) \cup Objects(s.projectiles)
        \cup Objects(s.powerUps) \cup Objects(s.particles)

\* How many times the last operation invoked the callback cb.
Calls(cb) == Cardinality({i \in 1..Len(log) : log[i].cb = cb})

\* The shield entry as the collision pass of the last update found it.
ShieldAtCollisions == "shield" \in DOMAIN last.colIn.player.powerUps

\* The active enemy projectiles that overlapped the player in the last update.
ProjectileHits ==
    {i \in 1..Len(last.colIn.projectiles) :
        /\ last.colIn.projectiles[i].active
        /\ last.colIn.projectiles[i].owner = "enemy"
        /\ checkCollision(last.colIn.projectiles[i], last.colIn.player)}

\* The enemies that overlapped the player in the last update and were
\* active when the player-vs-enemy pass reached them: active at the start
\* of the collision pass and not destroyed by a player projectile in it.
BodyHits ==
    {i \in 1..Len(last.colIn.enemies) :
        /\ last.colIn.enemies[i].active
        /\ last.colOut.enemies[i].health > 0
        /\ checkCollision(last.colIn.player, last.colIn.enemies[i])}

\* The enemies whose health the last update took from above 0 to 0 or less.
Killed ==
    {i \in 1..Len(last.colIn.enemies) :
        /\ last.colIn.enemies[i].active
        /\ last.colIn.enemies[i].health > 0
        /\ last.colOut.enemies[i].health <= 0}

\* The point values the specification gives for the enemy types.
PointsOf(type) ==
    IF type = "basic" THEN 100 ELSE IF type = "fast" THEN 150 ELSE 200

RECURSIVE SumPoints(_)
SumPoints(killed) ==
    IF killed = {} THEN 0
    ELSE LET i == CHOOSE i \in killed : TRUE
         IN  PointsOf(last.colIn.enemies[i].type) + SumPoints(killed \ {i})

\* The active power-ups that overlapped the player in the last update.
PickedUp ==
    {i \in 1..Len(last.colIn.powerUps) :
        /\ last.colIn.powerUps[i].active
        /\ checkCollision(last.colIn.player, last.colIn.powerUps[i])}

\* The kinds in the player's mapping both before and after the last update.
KeptKinds ==
    DOMAIN last.before.player.powerUps \cap DOMAIN engine.player.powerUps

(***************************************************************************)
(* C1: between construction (or reset) and the next reset, onGameOver is   *)
(* invoked at most once over any sequence of update() calls.               *)
(* gameOverCalls counts the invocations since the construction or the      *)
(* last reset.                                                             *)
(***************************************************************************)
C1_GameOverAtMostOnce == gameOverCalls <= 1

(***************************************************************************)
(* C2: lives changes only in the collision pass of update() and in         *)
(* reset(); the collision pass takes exactly 1 from lives for each active  *)
(* enemy projectile that overlaps the player and for each active enemy     *)
(* that overlaps the player, when the mapping has no shield entry, and     *)
(* nothing when it has one; reset() sets lives to 3.                       *)
(***************************************************************************)
C2_LivesAccounting ==
    /\ last.op = "setPlayerInput" => engine.lives = last.before.lives
    /\ last.op = "reset" => engine.lives = 3
    /\ last.op = "update" =>
        /\ last.colIn.lives = last.before.lives
        /\ engine.lives = last.colOut.lives
        /\ last.colOut.lives =
               last.colIn.lives
                   - (IF ShieldAtCollisions THEN 0
                      ELSE Cardinality(ProjectileHits) + Cardinality(BodyHits))

\* An unshielded player hit by a projectile and by an enemy in one update.
C2_Witness ==
    /\ last.op = "update"
    /\ ~ShieldAtCollisions
    /\ ProjectileHits # {}
    /\ BodyHits # {}
    /\ engine.lives = last.before.lives - 2

(***************************************************************************)
(* C3: when the mapping holds a shield entry as the collision pass of an   *)
(* update() runs, that update leaves lives unchanged and does not invoke   *)
(* onGameOver, whatever overlaps the player.                               *)
(***************************************************************************)
C3_ShieldBlocksDamage ==
    (last.op = "update" /\ ShieldAtCollisions) =>
        /\ engine.lives = last.before.lives
        /\ Calls("onGameOver") = 0
        /\ Calls("onLivesChange") = 0

\* A shielded player overlapped by an enemy projectile and by an enemy.
C3_Witness ==
    /\ last.op = "update"
    /\ ShieldAtCollisions
    /\ ProjectileHits # {}
    /\ BodyHits # {}

(***************************************************************************)
(* C4: between resets score changes only when a player projectile takes    *)
(* an active enemy's health from above 0 to 0 or less, and each such       *)
(* event adds that enemy's point value (basic 100, fast 150, heavy 200)    *)
(* exactly once; an enemy's health changes nowhere but in such a hit.      *)
(***************************************************************************)
C4_ScoreAccounting ==
    /\ last.op = "setPlayerInput" => engine.score = last.before.score
    /\ last.op = "update" =>
        /\ last.colIn.score = last.before.score
        /\ engine.score = last.colOut.score
        /\ last.colOut.score = last.before.score + SumPoints(Killed)
        /\ Calls("onScoreChange") = Cardinality(Killed)
        /\ \A i \in 1..Len(last.before.enemies) :
               last.colIn.enemies[i].health = last.before.enemies[i].health
        /\ \A i \in 1..Len(last.colIn.enemies) :
               last.colOut.enemies[i].health # last.colIn.enemies[i].health =>
                   /\ last.colIn.enemies[i].active
                   /\ \E j \in 1..Len(last.colIn.projectiles) :
                          /\ last.colIn.projectiles[j].active
                          /\ last.colIn.projectiles[j].owner = "player"
                          /\ ~last.colOut.projectiles[j].active
                          /\ checkCollision(last.colIn.projectiles[j],
                                            last.colIn.enemies[i])

\* The third hit destroys a heavy enemy.
C4_Witness ==
    /\ last.op = "update"
    /\ \E i \in Killed : last.colIn.enemies[i].type = "heavy"
    /\ engine.score = last.before.score + 200

(***************************************************************************)
(* C5: after every update() the four collections hold active entities      *)
(* only, and an entity that was deactivated is never active again and      *)
(* never in a collection again.  dead holds the identities of the          *)
(* entities that left a collision pass inactive.                           *)
(***************************************************************************)
C5_OnlyActiveEntities ==
    \A o \in Collections(engine) : o.active /\ o.id \notin dead

\* An update that removed entities and kept others.
C5_Witness ==
    /\ last.op = "update"
    /\ Inactive(last.colOut) # {}
    /\ Collections(engine) # {}

(***************************************************************************)
(* C6: the player's x is at least half its width and at most the canvas    *)
(* width minus half its width, in every state.                             *)
(***************************************************************************)
C6_PlayerWithinBounds ==
    /\ engine.player.position.x >= engine.player.size.x \div 2
    /\ engine.player.position.x <= engine.canvas.width - engine.player.size.x \div 2

\* The player held at the left wall by the clamp.
C6_Witness ==
    /\ last.op = "update"
    /\ engine.input.left
    /\ last.before.player.position.x - PLAYER_SPEED * last.deltaTime
           < engine.player.size.x \div 2
    /\ engine.player.position.x = engine.player.size.x \div 2

(***************************************************************************)
(* C7: reset() leaves score 0, lives 3, level 1, gameSpeed 1, the player   *)
(* at the horizontal centre and 60 pixels above the bottom, an empty       *)
(* mapping and four empty collections, and invokes onScoreChange(0),       *)
(* onLivesChange(3), onLevelChange(1) and onPowerUpChange([]) exactly      *)
(* once each.  gameSpeed is counted in fifths.                             *)
(***************************************************************************)
C7_ResetState ==
    last.op = "reset" =>
        /\ engine.score = 0
        /\ engine.lives = 3
        /\ engine.level = 1
        /\ engine.gameSpeed = 5
        /\ engine.player.position.x = engine.canvas.width \div 2
        /\ engine.player.position.y = engine.canvas.height - Px(60)
        /\ engine.player.powerUps = EmptyMap
        /\ engine.enemies = <<>>
        /\ engine.projectiles = <<>>
        /\ engine.powerUps = <<>>
        /\ engine.particles = <<>>
        /\ \A call \in {Call("onScoreChange", 0), Call("onLivesChange", 3),
                        Call("onLevelChange", 1), Call("onPowerUpChange", {})} :
               /\ Calls(call.cb) = 1
               /\ \E i \in 1..Len(log) : log[i] = call

\* A reset of an engine that had lost a life, moved, held a power-up and
\* had entities on the screen.
C7_Witness ==
    /\ last.op = "reset"
    /\ last.before.lives < 3
    /\ last.before.player.powerUps # EmptyMap
    /\ last.before.player.position.x # engine.player.position.x
    /\ last.before.particles # <<>>

(***************************************************************************)
(* C8: a pickup deactivates the power-up and sets the mapping entry of     *)
(* its kind to the power-up's remaining duration: 8000 ms minus the time   *)
(* counted down since it was spawned, not a fixed 8000 ms.                 *)
(***************************************************************************)
C8_PickupWritesRemaining ==
    last.op = "update" =>
        \A i \in PickedUp :
            LET powerUp == last.colIn.powerUps[i]
            IN  /\ ~last.colOut.powerUps[i].active
                /\ powerUp.type \in DOMAIN engine.player.powerUps
                /\ engine.player.powerUps[powerUp.type] = powerUp.duration
                /\ powerUp.duration = 8000 - (engine.lastTime - powerUp.spawnedAt)

\* A power-up picked up 100 ms after it was spawned.
C8_Witness ==
    /\ last.op = "update"
    /\ \E i \in PickedUp :
           /\ last.colIn.powerUps[i].duration = 7900
           /\ engine.player.powerUps[last.colIn.powerUps[i].type] = 7900

(***************************************************************************)
(* C9, as the specification states it: for every kind in the mapping       *)
(* both before and after an update(), the remaining duration after the     *)
(* call is strictly smaller than before.                                   *)
(***************************************************************************)
C9_DurationDecreases ==
    last.op = "update" =>
        \A k \in KeptKinds :
            engine.player.powerUps[k] < last.before.player.powerUps[k]

(***************************************************************************)
(* C9, amended: for every kind in the mapping both before and after an     *)
(* update() whose deltaTime is positive and in which no power-up of that   *)
(* kind is picked up, the remaining duration after the call is strictly    *)
(* smaller than before: smaller by deltaTime.                              *)
(***************************************************************************)
C9_DurationDecreasesForward ==
    (last.op = "update" /\ last.deltaTime > 0) =>
        \A k \in KeptKinds :
            (\A i \in PickedUp : last.colIn.powerUps[i].type # k) =>
                /\ engine.player.powerUps[k] < last.before.player.powerUps[k]
                /\ engine.player.powerUps[k]
                       = last.before.player.powerUps[k] - last.deltaTime

\* A forward update that keeps an entry of the mapping.
C9_Witness ==
    /\ last.op = "update"
    /\ last.deltaTime > 0
    /\ KeptKinds # {}
    /\ PickedUp = {}

(***************************************************************************)
(* C10: after every update() and reset() every entry of the player's       *)
(* mapping is greater than 0.                                              *)
(***************************************************************************)
C10_DurationsPositive ==
    \A k \in DOMAIN engine.player.powerUps : engine.player.powerUps[k] > 0

\* An update that counts an entry down to exactly 0 and removes it.
C10_Witness ==
    /\ last.op = "update"
    /\ \E k \in DOMAIN last.before.player.powerUps :
           /\ last.before.player.powerUps[k] = last.deltaTime
           /\ k \notin DOMAIN engine.player.powerUps

(***************************************************************************)
(* C11: over any sequence of update() calls with no reset() in it, score   *)
(* never decreases, level never decreases and lives never increases: no    *)
(* operation other than reset() lowers score or level or raises lives.     *)
(***************************************************************************)
C11_Monotonic ==
    last.op \in {"update", "setPlayerInput"} =>
        /\ engine.score >= last.before.score
        /\ engine.level >= last.before.level
        /\ engine.lives <= last.before.lives

\* An update that raises the score and the level, after lives were lost or not.
C11_Witness ==
    /\ last.op = "update"
    /\ engine.score > last.before.score
    /\ engine.level > last.before.level

(***************************************************************************)
(* C12, as the specification states it: with shoot held continuously from  *)
(* a cooldown of 0, the update() calls of 1000 ms of accumulated positive  *)
(* deltaTime fire exactly 4 shots when the mapping has no rapidFire entry  *)
(* in any of them, however the 1000 ms are divided, and more than 4 when   *)
(* it has one in all of them.                                              *)
(***************************************************************************)
HeldFor1000 ==
    /\ held.since >= 0
    /\ engine.lastTime - held.since = 1000
    /\ \A deltaTime \in held.steps : deltaTime > 0

C12_FourShots ==
    HeldFor1000 =>
        /\ held.plain => held.shots = 4
        /\ held.rapid => held.shots > 4

(***************************************************************************)
(* C12, amended: without a rapidFire entry the 1000 ms fire at least 1     *)
(* and at most 4 shots, and exactly 4 when all ticks have one deltaTime, a *)
(* whole number of milliseconds that divides 250; with a rapidFire entry   *)
(* throughout and every deltaTime between 100 and 200 ms they fire more    *)
(* than 4.                                                                 *)
(***************************************************************************)
C12_FourShotsEvenTicks ==
    HeldFor1000 =>
        /\ held.plain =>
            /\ held.shots >= 1
            /\ held.shots <= 4
            /\ (\E deltaTime \in held.steps :
                    held.steps = {deltaTime} /\ 250 % deltaTime = 0)
                   => held.shots = 4
        /\ (held.rapid /\ \A deltaTime \in held.steps :
                              deltaTime >= 100 /\ deltaTime <= 200)
               => held.shots > 4

\* Four ticks of 250 ms with shoot held and no rapidFire: four shots.
C12_Witness ==
    /\ HeldFor1000
    /\ held.plain
    /\ held.steps = {250}
    /\ held.shots = 4

(***************************************************************************)
(* C13: player projectiles take 25 from an enemy's health per hit; the     *)
(* enemy spawns with health 75 (heavy), 50 (basic) or 25 (fast), stays     *)
(* active while hits leave its health above 0 and becomes inactive at the  *)
(* hit that brings it to 0 or less; every hit adds 5 impact particles, the *)
(* destroying hit adds the enemy's points (200 for heavy) and 10           *)
(* destruction particles, and the new particles are in the store after     *)
(* that update().                                                          *)
(***************************************************************************)
InitialHealth(type) ==
    IF type = "heavy" THEN 75 ELSE IF type = "fast" THEN 25 ELSE 50

\* The active player projectiles that overlapped enemy i in the last update.
Hitting(i) ==
    {j \in 1..Len(last.colIn.projectiles) :
        /\ last.colIn.projectiles[j].active
        /\ last.colIn.projectiles[j].owner = "player"
        /\ checkCollision(last.colIn.projectiles[j], last.colIn.enemies[i])}

\* The hits enemy i took in the last update: one per projectile that
\* overlapped it, until the hit that destroyed it.
HitsOn(i) ==
    IF last.colIn.enemies[i].active
    THEN Min(Cardinality(Hitting(i)), (last.colIn.enemies[i].health + 24) \div 25)
    ELSE 0

RECURSIVE SumHits(_)
SumHits(i) == IF i = 0 THEN 0 ELSE HitsOn(i) + SumHits(i - 1)

Coloured(particles, color) ==
    Cardinality({i \in 1..Len(particles) : particles[i].color = color})

C13_HitsAndDestruction ==
    last.op = "update" =>
        /\ \A i \in 1..Len(last.colIn.enemies) :
               LET before == last.colIn.enemies[i]
                   after == last.colOut.enemies[i]
               IN  /\ i > Len(last.before.enemies) =>
                          before.health = InitialHealth(before.type)
                   /\ after.health = before.health - 25 * HitsOn(i)
                   /\ (before.active /\ after.health > 0) =>
                          after.active = (i \notin BodyHits)
                   /\ (before.active /\ after.health <= 0) =>
                          /\ ~after.active
                          /\ i \in Killed
                          /\ after.points = PointsOf(after.type)
        /\ engine.score = last.before.score + SumPoints(Killed)
        /\ Coloured(last.colOut.particles, "#ffd93d")
               = Coloured(last.colIn.particles, "#ffd93d") + 10 * Cardinality(Killed)
        /\ Len(last.colOut.particles)
               = Len(last.colIn.particles)
                   + 5 * SumHits(Len(last.colIn.enemies))
                   + 10 * Cardinality(Killed)
                   + (IF ShieldAtCollisions THEN 0
                      ELSE 8 * Cardinality(ProjectileHits) + 12 * Cardinality(BodyHits))
                   + 8 * Cardinality(PickedUp)
        /\ \A i \in 1..Len(last.colOut.particles) :
               i > Len(last.colIn.particles) =>
                   /\ last.colOut.particles[i].active
                   /\ last.colOut.particles[i] \in Objects(engine.particles)

\* The third hit on a heavy enemy: inactive, 200 points, 5 impact and 10
\* destruction particles in the store.
C13_Witness ==
    /\ last.op = "update"
    /\ \E i \in Killed :
           /\ last.colIn.enemies[i].type = "heavy"
           /\ last.colIn.enemies[i].health = 25
           /\ HitsOn(i) = 1
           /\ ~last.colOut.enemies[i].active
    /\ engine.score = last.before.score + 200
    /\ Coloured(engine.particles, "#ffd93d") >= 10
    /\ Len(last.colOut.particles) = Len(last.colIn.particles) + 15

(***************************************************************************)
(* C14: checkCollision is symmetric: checkCollision(A, B) is               *)
(* checkCollision(B, A) for all objects A and B with positive sizes.       *)
(***************************************************************************)
C14_Symmetric ==
    last.op = "checkCollision" => last.result = last.swapped

\* Two objects of different sizes that collide, each way.
C14_Witness ==
    /\ last.op = "checkCollision"
    /\ last.obj1.size # last.obj2.size
    /\ last.obj1.position # last.obj2.position
    /\ last.result
    /\ last.swapped

(***************************************************************************)
(* C15: checkCollision(A, B) is true exactly when the rectangles centred   *)
(* at A.position and B.position with extents A.size and B.size intersect   *)
(* strictly on both axes: |A.x - B.x| < (A.w + B.w) / 2 and                *)
(* |A.y - B.y| < (A.h + B.h) / 2.                                          *)
(***************************************************************************)
Distance(a, b) == IF a >= b THEN a - b ELSE b - a

C15_CentredRectangles ==
    last.op = "checkCollision" =>
        (last.result <=>
            /\ 2 * Distance(last.obj1.position.x, last.obj2.position.x)
                   < last.obj1.size.x + last.obj2.size.x
            /\ 2 * Distance(last.obj1.position.y, last.obj2.position.y)
                   < last.obj1.size.y + last.obj2.size.y)

(***************************************************************************)
(* C16: an update() whose deltaTime is zero or negative is a no-op for     *)
(* motion integration: the player and every enemy, projectile and          *)
(* particle that is in the store before and after the call have the same   *)
(* position after it as before it, and the cooldowns are not negative.     *)
(***************************************************************************)
SamePositions(before, after) ==
    \A o \in Objects(before) : \A p \in Objects(after) :
        o.id = p.id => o.position = p.position

C16_NoMotionWithoutTime ==
    (last.op = "update" /\ last.deltaTime <= 0) =>
        /\ engine.player.position = last.before.player.position
        /\ SamePositions(last.before.enemies, engine.enemies)
        /\ SamePositions(last.before.projectiles, engine.projectiles)
        /\ SamePositions(last.before.particles, engine.particles)
        /\ engine.player.shootCooldown >= 0
        /\ \A enemy \in Objects(engine.enemies) : enemy.shootCooldown >= 0

(***************************************************************************)
(* C17: every update() invokes onPowerUpChange exactly once, and invokes   *)
(* onScoreChange, onLivesChange and onLevelChange once per change of the   *)
(* value during that call and not otherwise: each call carries a value     *)
(* that differs from the one before it, and the last one is the value the  *)
(* update() ends with.                                                     *)
(***************************************************************************)
Delivered(cb) ==
    LET calls == SelectSeq(log, LAMBDA call : call.cb = cb)
    IN  [i \in 1..Len(calls) |-> calls[i].arg]

OncePerChange(cb, before, after) ==
    LET args == Delivered(cb)
    IN  /\ \A i \in 1..Len(args) :
               args[i] # (IF i = 1 THEN before ELSE args[i - 1])
        /\ IF args = <<>> THEN after = before ELSE after = args[Len(args)]

C17_CallbackFrequency ==
    last.op = "update" =>
        /\ Calls("onPowerUpChange") = 1
        /\ OncePerChange("onScoreChange", last.before.score, engine.score)
        /\ OncePerChange("onLivesChange", last.before.lives, engine.lives)
        /\ OncePerChange("onLevelChange", last.before.level, engine.level)
        /\ Calls("onScoreChange") = Cardinality(Killed)
        /\ Calls("onLivesChange") = last.before.lives - engine.lives
        /\ Calls("onLevelChange") = (IF engine.level # last.before.level THEN 1 ELSE 0)

\* An update that changes score and level: one call of each, and one of
\* onPowerUpChange though the mapping is as it was.
C17_Witness ==
    /\ last.op = "update"
    /\ engine.player.powerUps = last.before.player.powerUps
    /\ Delivered("onPowerUpChange") = <<{}>>
    /\ Delivered("onScoreChange") = <<engine.score>>
    /\ Delivered("onLevelChange") = <<2>>
    /\ Delivered("onLivesChange") = <<>>

(***************************************************************************)
(* C18: after every update() and reset() the presentation's score, lives   *)
(* and level (0, 3 and 1 at first, then the last value delivered on the    *)
(* callback of each) are the engine's score, lives and level.              *)
(***************************************************************************)
C18_ViewIsCurrent ==
    /\ view.score = engine.score
    /\ view.lives = engine.lives
    /\ view.level = engine.level

\* An update that took a life: the presentation shows the new count.
C18_Witness ==
    /\ last.op = "update"
    /\ engine.lives < last.before.lives
    /\ view.lives = engine.lives

(***************************************************************************)
(* C19: after every update() the last list delivered on onPowerUpChange    *)
(* has exactly the kinds and remaining seconds of the player's mapping,    *)
(* also when a pickup set the mapping during that update().                *)
(***************************************************************************)
C19_PowerUpViewIsCurrent ==
    last.op = "update" =>
        view.activePowerUps = activePowerUps(engine.player.powerUps)

(***************************************************************************)
(* C20: after every update() and reset(), level is floor(score / 1000) + 1 *)
(* and gameSpeed is 1 + (level - 1) * 0.2 (in fifths: 5 + (level - 1)),    *)
(* and an update() invokes onLevelChange exactly when it changes level.    *)
(***************************************************************************)
C20_LevelFormula ==
    /\ engine.level = (engine.score \div 1000) + 1
    /\ engine.gameSpeed = 5 + (engine.level - 1)
    /\ last.op = "update" =>
           (Calls("onLevelChange") >= 1 <=> engine.level # last.before.level)

\* The update that takes the score past 1000: level 2, gameSpeed 1.2.
C20_Witness ==
    /\ last.op = "update"
    /\ last.before.score < 1000
    /\ engine.score >= 1000
    /\ engine.level = 2
    /\ engine.gameSpeed = 6
    /\ Calls("onLevelChange") = 1

(***************************************************************************)
(* C23: a player projectile that hits an enemy is deactivated and is not   *)
(* processed against any further enemy: within one update() (and so over   *)
(* its whole life) a single player projectile subtracts its damage from at *)
(* most one enemy.  The health the enemies lose in the collision pass is   *)
(* then at most 25 for every player projectile the pass deactivates, and a *)
(* projectile that overlaps an enemy the pass leaves active is one of      *)
(* them.                                                                   *)
(***************************************************************************)
Spent ==
    {j \in 1..Len(last.colIn.projectiles) :
        /\ last.colIn.projectiles[j].owner = "player"
        /\ last.colIn.projectiles[j].active
        /\ ~last.colOut.projectiles[j].active}

RECURSIVE DamageTaken(_)
DamageTaken(i) ==
    IF i = 0 THEN 0
    ELSE last.colIn.enemies[i].health - last.colOut.enemies[i].health + DamageTaken(i - 1)

C23_OneEnemyPerProjectile ==
    last.op = "update" =>
        /\ DamageTaken(Len(last.colIn.enemies)) <= 25 * Cardinality(Spent)
        /\ \A j \in 1..Len(last.colIn.projectiles), i \in 1..Len(last.colIn.enemies) :
               ( /\ last.colIn.projectiles[j].owner = "player"
                 /\ last.colIn.projectiles[j].active
                 /\ last.colIn.enemies[i].active
                 /\ last.colOut.enemies[i].active
                 /\ checkCollision(last.colIn.projectiles[j], last.colIn.enemies[i]) )
               => j \in Spent

(***************************************************************************)
(* C24: with or without a shield entry, the collision pass deactivates     *)
(* every active enemy projectile that overlaps the player and every active *)
(* enemy that overlaps the player, and picks up every active power-up      *)
(* that overlaps the player (the power-up is deactivated and its kind is   *)
(* in the mapping); the score grows by the points of the enemies the       *)
(* player's projectiles destroyed only: an enemy deactivated by touching   *)
(* the player adds nothing.                                                *)
(***************************************************************************)
Touching ==
    {i \in 1..Len(last.colIn.enemies) :
        /\ last.colIn.enemies[i].active
        /\ checkCollision(last.colIn.player, last.colIn.enemies[i])}

C24_ContactDeactivates ==
    last.op = "update" =>
        /\ \A i \in ProjectileHits : ~last.colOut.projectiles[i].active
        /\ \A i \in Touching : ~last.colOut.enemies[i].active
        /\ \A i \in PickedUp :
               /\ ~last.colOut.powerUps[i].active
               /\ last.colIn.powerUps[i].type \in DOMAIN last.colOut.player.powerUps
        /\ last.colOut.score = last.colIn.score + SumPoints(Killed \ BodyHits)

\* A shielded update in which an enemy projectile and an enemy touched the
\* player: both are inactive, and neither lives nor score changed.
C24_Witness ==
    /\ last.op = "update"
    /\ ShieldAtCollisions
    /\ \E i \in ProjectileHits : ~last.colOut.projectiles[i].active
    /\ \E i \in BodyHits : ~last.colOut.enemies[i].active
    /\ last.colOut.lives = last.colIn.lives
    /\ last.colOut.score = last.colIn.score

(***************************************************************************)
(* C25: whatever the deltaTime, an update() spawns at most one enemy and   *)
(* at most one power-up: an enemy exactly when enemySpawnTimer - deltaTime *)
(* <= 0, and the timer is then ENEMY_SPAWN_RATE / gameSpeed with the       *)
(* gameSpeed the update() started with; a power-up exactly when            *)
(* powerUpSpawnTimer - deltaTime <= 0, and the timer is then 15000.        *)
(* Otherwise the timers are the decremented ones.                          *)
(***************************************************************************)
SpawnedEnemies == Len(last.colIn.enemies) - Len(last.before.enemies)
SpawnedPowerUps == Len(last.colIn.powerUps) - Len(last.before.powerUps)

C25_SpawnTimers ==
    last.op = "update" =>
        LET t1 == last.before.enemySpawnTimer - last.deltaTime
            t2 == last.before.powerUpSpawnTimer - last.deltaTime
        IN  /\ SpawnedEnemies = (IF t1 <= 0 THEN 1 ELSE 0)
            /\ SpawnedPowerUps = (IF t2 <= 0 THEN 1 ELSE 0)
            /\ engine.enemySpawnTimer =
                   (IF t1 <= 0 THEN (ENEMY_SPAWN_RATE * 5) \div last.before.gameSpeed ELSE t1)
            /\ engine.powerUpSpawnTimer = (IF t2 <= 0 THEN POWERUP_SPAWN_RATE ELSE t2)

\* The update() that raises the level spawns one enemy and leaves the
\* timer at the 2000 ms of the gameSpeed it started with.
C25_Witness ==
    /\ last.op = "update"
    /\ engine.gameSpeed > last.before.gameSpeed
    /\ SpawnedEnemies = 1
    /\ engine.enemySpawnTimer = ENEMY_SPAWN_RATE

(***************************************************************************)
(* C26: after a reset(), the first update() with deltaTime >= 0 spawns an  *)
(* enemy, and no power-up is spawned until the deltaTime accumulated since *)
(* the reset reaches 15000 ms.  history keeps, since the last reset(), the *)
(* first update() and the time accumulated when the first power-up was     *)
(* spawned.                                                                *)
(***************************************************************************)
C26_AfterReset ==
    resets > 0 =>
        /\ (history.updates >= 1 /\ history.firstDelta >= 0) => history.firstSpawned
        /\ history.powerUpAfter # -1 => history.powerUpAfter >= POWERUP_SPAWN_RATE
        /\ history.powerUpAfter = -1 => engine.powerUps = <<>>

\* Updates after a reset(): the first spawned an enemy, and the last, at
\* 16000 ms, a power-up.
C26_Witness ==
    /\ resets > 0
    /\ last.op = "update"
    /\ history.firstSpawned
    /\ SpawnedPowerUps = 1
    /\ history.powerUpAfter >= POWERUP_SPAWN_RATE

(***************************************************************************)
(* C27: an enemy creates a projectile only in an update() in which its     *)
(* shoot cooldown, after the decrement, is 0; firing sets the cooldown to  *)
(* a value in [1000, 3000); an enemy fires at most once per update(), and  *)
(* two shots of the same enemy are at least 1000 ms of accumulated         *)
(* deltaTime apart.  ShotsOf(id) are the enemy projectiles the last        *)
(* update() created for the enemy id.                                      *)
(***************************************************************************)
ShotsOf(id) ==
    {j \in 1..Len(last.colIn.projectiles) :
        /\ last.colIn.projectiles[j].owner = "enemy"
        /\ last.colIn.projectiles[j].id \notin
               {last.before.projectiles[k].id : k \in 1..Len(last.before.projectiles)}
        /\ last.colIn.projectiles[j].shooter = id}

C27_EnemyFire ==
    last.op = "update" =>
        /\ \A i \in 1..Len(last.before.enemies) :
               LET shots == ShotsOf(last.before.enemies[i].id)
               IN  /\ Cardinality(shots) <= 1
                   /\ shots # {} =>
                          /\ Max(0, last.before.enemies[i].shootCooldown - last.deltaTime) = 0
                          /\ last.colIn.enemies[i].shootCooldown >= 1000
                          /\ last.colIn.enemies[i].shootCooldown < 3000
        /\ \A i \in Len(last.before.enemies) + 1..Len(last.colIn.enemies) :
               ShotsOf(last.colIn.enemies[i].id) = {}
        /\ \A gap \in history.gaps : gap >= 1000

\* An enemy fired for the second time.
C27_Witness ==
    /\ last.op = "update"
    /\ history.gaps # {}
    /\ \E i \in 1..Len(last.before.enemies) : ShotsOf(last.before.enemies[i].id) # {}

(***************************************************************************)
(* C28: after every update(), every projectile in the store lies inside    *)
(* the screen rectangle padded by 10 pixels on each side, the projectiles  *)
(* created in that update() included.                                      *)
(***************************************************************************)
InsidePadded(projectile) ==
    /\ projectile.position.x >= -Px(10)
    /\ projectile.position.x <= engine.canvas.width + Px(10)
    /\ projectile.position.y >= -Px(10)
    /\ projectile.position.y <= engine.canvas.height + Px(10)

C28_ProjectilesOnScreen ==
    last.op = "update" =>
        \A i \in 1..Len(engine.projectiles) : InsidePadded(engine.projectiles[i])

\* An update() that created a projectile which is in the store and one
\* which left the padded rectangle and is not.
C28_Witness ==
    /\ last.op = "update"
    /\ \E i \in 1..Len(engine.projectiles) : engine.projectiles[i].id >= last.before.nextId
    /\ \E j \in 1..Len(last.colIn.projectiles) :
           /\ last.colIn.projectiles[j].id >= last.before.nextId
           /\ ~InsidePadded(last.colIn.projectiles[j])
           /\ last.colIn.projectiles[j].id \notin
                  {engine.projectiles[i].id : i \in 1..Len(engine.projectiles)}

(***************************************************************************)
(* C29: an update() deactivates an enemy only when its health is <= 0      *)
(* after a hit, when its y is above canvasHeight + 50, or when it overlaps *)
(* the player; every enemy in the store after an update() is active, has   *)
(* health > 0 and y <= canvasHeight + 50.                                  *)
(***************************************************************************)
OffScreen(enemy) == enemy.position.y > engine.canvas.height + Px(50)

C29_EnemyDeactivation ==
    last.op = "update" =>
        /\ \A i \in 1..Len(last.colOut.enemies) :
               ~last.colOut.enemies[i].active =>
                   \/ /\ last.colOut.enemies[i].health <= 0
                      /\ last.colOut.enemies[i].health < last.colIn.enemies[i].health
                   \/ OffScreen(last.colOut.enemies[i])
                   \/ checkCollision(last.colIn.player, last.colIn.enemies[i])
        /\ \A i \in 1..Len(engine.enemies) :
               /\ engine.enemies[i].active
               /\ engine.enemies[i].health > 0
               /\ ~OffScreen(engine.enemies[i])

\* An update() that deactivated an enemy for having left the screen only,
\* and kept another enemy.
C29_Witness ==
    /\ last.op = "update"
    /\ engine.enemies # <<>>
    /\ \E i \in 1..Len(last.colOut.enemies) :
           /\ ~last.colOut.enemies[i].active
           /\ OffScreen(last.colOut.enemies[i])
           /\ last.colOut.enemies[i].health > 0
           /\ ~checkCollision(last.colIn.player, last.colIn.enemies[i])

(***************************************************************************)
(* C22: playSound never lets an error leave it, whatever the state of the  *)
(* manager (initialization pending or failed, context suspended, disposed, *)
(* unknown cue), and it starts a sound source only when the initialization *)
(* has completed, the context exists and is not suspended, and the cue has *)
(* a buffer.                                                               *)
(***************************************************************************)
C22_PlaySoundIsSafe ==
    last.op = "playSound" =>
        /\ ~last.threw
        /\ last.started =>
               /\ last.before.initialized
               /\ last.before.context = "running"
               /\ last.soundName \in last.before.sounds

\* playSound on a manager that was disposed of while its initialization was
\* pending, and whose initialization then completed: initialized without a
\* context.
C22_Witness ==
    /\ last.op = "playSound"
    /\ last.before.initialized
    /\ last.before.context = "none"
    /\ ~last.started
    /\ ~last.threw

(***************************************************************************)
(* C21: the gameState of the driver moves only along Menu -> Playing ->    *)
(* Paused -> Game Over: Menu to Playing by the start; Playing and Paused   *)
(* alternate through P, Escape and the buttons of the pause overlay;       *)
(* Playing becomes Game Over only through onGameOver; Game Over is left    *)
(* only through Play Again (to Playing) and Back to Menu, and no key press *)
(* moves the driver out of Game Over.                                      *)
(***************************************************************************)
DriverOps == {"start", "frame", "keydown", "keyup", "resume", "restart", "quit"}

C21_StateMachine ==
    last.op \in DriverOps =>
        LET from == last.from
            to == driver.gameState
        IN  \/ from = to
            \/ from = "menu" /\ to = "playing" /\ last.op = "start"
            \/ /\ from = "playing" /\ to = "paused"
               /\ last.op = "keydown" /\ last.key \in {"p", "escape"}
            \/ /\ from = "paused" /\ to = "playing"
               /\ \/ last.op \in {"resume", "restart"}
                  \/ last.op = "keydown" /\ last.key = "p"
            \/ from = "paused" /\ to = "menu" /\ last.op = "quit"
            \/ /\ from = "playing" /\ to = "gameOver"
               /\ last.op = "frame"
               /\ \E i \in 1..Len(log) : log[i].cb = "onGameOver"
            \/ from = "gameOver" /\ to = "playing" /\ last.op = "restart"
            \/ from = "gameOver" /\ to = "menu" /\ last.op = "quit"

(***************************************************************************)
(* C30: in the driver, a pause followed by a resume keeps the session: the *)
(* score, lives, level, player and collections of the engine after the     *)
(* resume are those of before the pause, and the score, lives and level    *)
(* the HUD shows are the engine's.                                         *)
(***************************************************************************)
SessionOf(snapshot) ==
    [score |-> snapshot.score,
     lives |-> snapshot.lives,
     level |-> snapshot.level,
     player |-> snapshot.player,
     enemies |-> snapshot.enemies,
     projectiles |-> snapshot.projectiles,
     powerUps |-> snapshot.powerUps,
     particles |-> snapshot.particles]

\* The last event resumed a game that was paused while playing.
Resumed ==
    /\ \/ last.op = "resume"
       \/ last.op = "keydown" /\ last.key = "p" /\ last.from = "paused"
    /\ driver.atPause # NoSnapshot

C30_ResumeKeepsSession ==
    Resumed =>
        /\ SessionOf(Snapshot(Running)) = SessionOf(driver.atPause)
        /\ view.score = engine.score
        /\ view.lives = engine.lives
        /\ view.level = engine.level

(***************************************************************************)
(* C31: in every reachable state of the engine, lives is within 0..3: it   *)
(* never becomes negative, even when several unshielded hits land in the   *)
(* same update() or the update() calls continue after the game is over.    *)
(***************************************************************************)
C31_LivesInRange == engine.lives >= 0 /\ engine.lives <= 3

====
